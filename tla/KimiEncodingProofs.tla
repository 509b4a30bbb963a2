------------------------- MODULE KimiEncodingProofs -------------------------
(***************************************************************************)
(* Proofs about KimiEncoding, for any requests, of any length.             *)
(*                                                                         *)
(* The properties speak of the finished prompt.  The invariant has two     *)
(* parts.  OrderInv says of the messages put out so far how they are       *)
(* arranged: every run of results complete, each message in its run, and a *)
(* run that answers calls in the order of the calls.  PromptInv says of    *)
(* the segments written so far what can be read of them: which elements    *)
(* are open, how many messages were begun, with which roles, and under     *)
(* which number each result stands.  Both speak of sequences that are      *)
(* extended at their ends, so most lemmas say what a concatenation has of  *)
(* its parts.                                                              *)
(***************************************************************************)
EXTENDS KimiEncoding, OrderLemmas, SequenceTheorems

-----------------------------------------------------------------------------
(***************************************************************************)
(* Concatenation                                                           *)
(***************************************************************************)
\* A set of sequences that is closed under concatenation has that of its members.
LEMMA FlattenIn ==
    ASSUME NEW S, <<>> \in S, \A x, y \in S : x \o y \in S, NEW parts \in Seq(S)
    PROVE  FlattenSeq(parts) \in S
<1>. DEFINE n == Len(parts)
            Fits(f, d) == f = [k \in 1..d |-> IF k = 1 THEN parts[k] ELSE f[k - 1] \o parts[k]]
            flatten == CHOOSE f : Fits(f, n)
<1>1. n \in Nat /\ \A k \in 1..n : parts[k] \in S
  OBVIOUS
<1>2. CASE n = 0
  BY <1>2 DEF FlattenSeq
<1>3. CASE n # 0
  <2>1. FlattenSeq(parts) = flatten[n]
    BY <1>3 DEF FlattenSeq
  <2>2. \A d \in 1..n : \E f : Fits(f, d)
    <3>. DEFINE T == {d \in 1..n : ~ \E f : Fits(f, d)}
    <3>. SUFFICES ASSUME NEW e \in 1..n, ~ \E f : Fits(f, e) PROVE FALSE
      BY Zenon
    <3>0. e \in T
      BY Zenon
    <3>1. T \in SUBSET Nat
      <4>1. 1..n \subseteq Nat
        OBVIOUS
      <4>. QED
        BY <4>1, Zenon
    <3>. HIDE DEF T
    <3>2. PICK d \in T : \A c \in T : d <= c
      BY <3>0, <3>1, FirstOfNumbers
    <3>. USE DEF T
    <3>3. d # 1
      <4>1. Fits([k \in 1..1 |-> parts[k]], 1)
        OBVIOUS
      <4>. QED
        BY <4>1
    <3>4. d - 1 \in 1..n /\ d - 1 \notin T
      <4>1. d \in 1..n
        <5>. HIDE DEF Fits
        <5>. QED
          BY <3>2
      <4>2. d - 1 \in 1..n /\ ~(d <= d - 1)
        BY <3>3, <4>1, <1>1
      <4>. HIDE DEF T
      <4>. QED
        BY <3>2, <4>2
    <3>5. PICK f : Fits(f, d - 1)
      BY <3>4
    <3>. DEFINE g == [k \in 1..d |-> IF k = d THEN f[d - 1] \o parts[d] ELSE f[k]]
    <3>6. Fits(g, d)
      <4>1. \A k \in 1..d : g[k] = IF k = 1 THEN parts[k] ELSE g[k - 1] \o parts[k]
        <5>. SUFFICES ASSUME NEW k \in 1..d
                      PROVE  g[k] = IF k = 1 THEN parts[k] ELSE g[k - 1] \o parts[k]
          OBVIOUS
        <5>1. CASE k = d
          <6>1. k # 1 /\ k - 1 \in 1..d /\ k - 1 # d
            BY <3>3, <5>1
          <6>. QED
            BY <5>1, <6>1
        <5>2. CASE k # d
          <6>1. k \in 1..(d - 1) /\ g[k] = f[k] /\ (k # 1 => k - 1 \in 1..d /\ k - 1 # d)
            BY <5>2
          <6>2. f[k] = IF k = 1 THEN parts[k] ELSE f[k - 1] \o parts[k]
            BY <3>5, <6>1
          <6>. QED
            BY <6>1, <6>2
        <5>. QED
          BY <5>1, <5>2
      <4>. HIDE DEF g
      <4>2. g = [k \in 1..d |-> g[k]]
        BY DEF g
      <4>. QED
        BY <4>1, <4>2
    <3>. QED
      BY <3>6
  <2>3. Fits(flatten, n)
    <3>1. n \in 1..n
      BY <1>1, <1>3
    <3>2. \E f : Fits(f, n)
      BY <2>2, <3>1
    <3>. HIDE DEF Fits
    <3>. QED
      BY <3>2
  <2>. HIDE DEF flatten
  <2>4. \A k \in 1..n : flatten[k] = IF k = 1 THEN parts[k] ELSE flatten[k - 1] \o parts[k]
    BY <2>3
  <2>. DEFINE U == {k \in 1..n : flatten[k] \notin S}
  <2>5. U = {}
    <3>. SUFFICES ASSUME U # {} PROVE FALSE
      OBVIOUS
    <3>1. U \in SUBSET Nat
      OBVIOUS
    <3>. HIDE DEF U
    <3>2. PICK k \in U : \A c \in U : k <= c
      BY <3>1, FirstOfNumbers
    <3>. USE DEF U
    <3>3. k # 1
      BY <1>1, <2>4
    <3>4. k - 1 \in 1..n /\ flatten[k - 1] \in S
      BY <3>2, <3>3
    <3>5. flatten[k] = flatten[k - 1] \o parts[k]
      BY <2>4, <3>3
    <3>. QED
      BY <1>1, <3>4, <3>5
  <2>. QED
    BY <1>1, <1>3, <2>1, <2>5
<1>. QED
  BY <1>1, <1>2, <1>3

-----------------------------------------------------------------------------
(***************************************************************************)
(* The arguments of a call                                                 *)
(***************************************************************************)
\* From lexeme j on there are n pairs with commas between them and a brace behind.
ArePairs(s, j, n) ==
    \A k \in 1..n :
        /\ PairAt(s, j + 4 * (k - 1))
        /\ Lex(s, j + 4 * k - 1) = IF k = n THEN "}" ELSE ","

\* Only behind the string there is its end.
LEMMA LexInside ==
    ASSUME NEW s \in Seq(Lexemes), NEW j \in Nat, Lex(s, j) # "end"
    PROVE  j \in 1..Len(s)
  BY DEF Lex

\* Pairs are one pair, or one, a comma and pairs.
LEMMA OnePair ==
    ASSUME NEW s, NEW j \in Nat
    PROVE  ArePairs(s, j, 1) <=> PairAt(s, j) /\ Lex(s, j + 3) = "}"
<1>1. 1..1 = {1} /\ j + 4 * (1 - 1) = j /\ j + 4 * 1 - 1 = j + 3
  OBVIOUS
<1>. QED
  BY <1>1 DEF ArePairs

LEMMA MorePairs ==
    ASSUME NEW s, NEW j \in Nat, NEW n \in Nat \ {0}
    PROVE  ArePairs(s, j, n + 1) <=>
               PairAt(s, j) /\ Lex(s, j + 3) = "," /\ ArePairs(s, j + 4, n)
<1>1. \A k \in 1..n : /\ k + 1 \in 1..(n + 1)
                      /\ (j + 4) + 4 * (k - 1) = j + 4 * ((k + 1) - 1)
                      /\ (j + 4) + 4 * k - 1 = j + 4 * (k + 1) - 1
                      /\ k = n <=> k + 1 = n + 1
  OBVIOUS
<1>2. 1 \in 1..(n + 1) /\ 1 # n + 1 /\ j + 4 * (1 - 1) = j /\ j + 4 * 1 - 1 = j + 3
  OBVIOUS
<1>3. \A k \in 1..(n + 1) : k # 1 => k - 1 \in 1..n /\ (k - 1) + 1 = k
  OBVIOUS
<1>4. ASSUME ArePairs(s, j, n + 1)
      PROVE  PairAt(s, j) /\ Lex(s, j + 3) = "," /\ ArePairs(s, j + 4, n)
  <2>1. PairAt(s, j) /\ Lex(s, j + 3) = ","
    BY <1>2, <1>4 DEF ArePairs
  <2>2. ASSUME NEW k \in 1..n
        PROVE  /\ PairAt(s, (j + 4) + 4 * (k - 1))
               /\ Lex(s, (j + 4) + 4 * k - 1) = IF k = n THEN "}" ELSE ","
    <3>1. /\ PairAt(s, j + 4 * ((k + 1) - 1))
          /\ Lex(s, j + 4 * (k + 1) - 1) = IF k + 1 = n + 1 THEN "}" ELSE ","
      BY <1>1, <1>4 DEF ArePairs
    <3>. QED
      BY <1>1, <3>1
  <2>. QED
    BY <2>1, <2>2 DEF ArePairs
<1>5. ASSUME PairAt(s, j), Lex(s, j + 3) = ",", ArePairs(s, j + 4, n)
      PROVE  ArePairs(s, j, n + 1)
  <2>1. ASSUME NEW k \in 1..(n + 1)
        PROVE  /\ PairAt(s, j + 4 * (k - 1))
               /\ Lex(s, j + 4 * k - 1) = IF k = n + 1 THEN "}" ELSE ","
    <3>1. CASE k = 1
      BY <1>2, <1>5, <3>1
    <3>2. CASE k # 1
      <4>. DEFINE l == k - 1
      <4>1. l \in 1..n /\ l + 1 = k
        BY <1>3, <3>2
      <4>. HIDE DEF l
      <4>2. /\ PairAt(s, (j + 4) + 4 * (l - 1))
            /\ Lex(s, (j + 4) + 4 * l - 1) = IF l = n THEN "}" ELSE ","
        BY <1>5, <4>1 DEF ArePairs
      <4>3. /\ (j + 4) + 4 * (l - 1) = j + 4 * (k - 1)
            /\ (j + 4) + 4 * l - 1 = j + 4 * k - 1
            /\ l = n <=> k = n + 1
        BY <1>1, <4>1
      <4>. QED
        BY <4>2, <4>3
    <3>. QED
      BY <3>1, <3>2
  <2>. QED
    BY <2>1 DEF ArePairs
<1>. QED
  BY <1>4, <1>5

\* From one place on there is only one number of pairs.
LEMMA PairsAreUnique ==
    ASSUME NEW s, NEW j \in Nat, NEW n \in Nat \ {0}, NEW m \in Nat \ {0},
           ArePairs(s, j, n), ArePairs(s, j, m)
    PROVE  n = m
<1>1. ASSUME NEW a \in Nat \ {0}, NEW b \in Nat \ {0}, ArePairs(s, j, a), ArePairs(s, j, b)
      PROVE  ~(a < b)
  <2>. SUFFICES ASSUME a < b PROVE FALSE
    OBVIOUS
  <2>1. a \in 1..a /\ a \in 1..b /\ a # b
    OBVIOUS
  <2>. QED
    BY <1>1, <2>1 DEF ArePairs
<1>. QED
  BY <1>1

\* The number of pairs from lexeme j on.
CountAt(s, j) ==
    IF \E n \in Nat \ {0} : ArePairs(s, j, n) THEN CHOOSE n \in Nat \ {0} : ArePairs(s, j, n) ELSE 0

\* The count is the number of pairs, if there are some.
LEMMA CountIs ==
    ASSUME NEW s, NEW j \in Nat
    PROVE  /\ CountAt(s, j) \in Nat
           /\ CountAt(s, j) # 0 => ArePairs(s, j, CountAt(s, j))
           /\ \A n \in Nat \ {0} : ArePairs(s, j, n) => CountAt(s, j) = n
<1>1. CASE \E n \in Nat \ {0} : ArePairs(s, j, n)
  <2>1. CountAt(s, j) \in Nat \ {0} /\ ArePairs(s, j, CountAt(s, j))
    BY <1>1 DEF CountAt
  <2>. QED
    BY <2>1, PairsAreUnique
<1>2. CASE ~ \E n \in Nat \ {0} : ArePairs(s, j, n)
  BY <1>2 DEF CountAt
<1>. QED
  BY <1>1, <1>2

\* The count obeys the equation of the walk.
LEMMA CountStep ==
    ASSUME NEW s, NEW j \in Nat
    PROVE  CountAt(s, j) = IF ~PairAt(s, j) THEN 0
                           ELSE IF Lex(s, j + 3) = "}" THEN 1
                           ELSE IF Lex(s, j + 3) # "," \/ CountAt(s, j + 4) = 0 THEN 0
                           ELSE CountAt(s, j + 4) + 1
<1>0. \A a \in Nat : a + 1 \in Nat \ {0} /\ (a # 0 => a \in Nat \ {0})
  OBVIOUS
<1>1. ASSUME NEW n \in Nat \ {0}, ArePairs(s, j, n)
      PROVE  /\ PairAt(s, j)
             /\ \/ n = 1 /\ Lex(s, j + 3) = "}"
                \/ Lex(s, j + 3) = "," /\ CountAt(s, j + 4) = n - 1 /\ n # 1
  <2>1. CASE n = 1
    BY <1>1, <2>1, OnePair
  <2>2. CASE n # 1
    <3>. DEFINE m == n - 1
    <3>1. m \in Nat \ {0} /\ m + 1 = n /\ j + 4 \in Nat
      BY <2>2
    <3>. HIDE DEF m
    <3>2. PairAt(s, j) /\ Lex(s, j + 3) = "," /\ ArePairs(s, j + 4, m)
      BY <1>1, <3>1, MorePairs
    <3>3. CountAt(s, j + 4) = m
      BY <3>1, <3>2, CountIs
    <3>4. CountAt(s, j + 4) = n - 1 /\ n # 1
      BY <2>2, <3>1, <3>3
    <3>. QED
      BY <3>2, <3>4, Zenon
  <2>. QED
    BY <2>1, <2>2
<1>2. CountAt(s, j) \in Nat /\ (CountAt(s, j) # 0 => ArePairs(s, j, CountAt(s, j)))
  BY CountIs
<1>3. j + 4 \in Nat /\ CountAt(s, j + 4) \in Nat
      /\ (CountAt(s, j + 4) # 0 => ArePairs(s, j + 4, CountAt(s, j + 4)))
  BY CountIs
<1>4. PairAt(s, j) /\ Lex(s, j + 3) = "}" => CountAt(s, j) = 1
  <2>1. 1 \in Nat \ {0}
    OBVIOUS
  <2>. QED
    BY <2>1, OnePair, CountIs, Zenon
<1>5. PairAt(s, j) /\ Lex(s, j + 3) = "," /\ CountAt(s, j + 4) # 0 =>
          CountAt(s, j) = CountAt(s, j + 4) + 1
  <2>. SUFFICES ASSUME PairAt(s, j), Lex(s, j + 3) = ",", CountAt(s, j + 4) # 0
                PROVE  CountAt(s, j) = CountAt(s, j + 4) + 1
    OBVIOUS
  <2>. DEFINE m == CountAt(s, j + 4)
  <2>1. ArePairs(s, j + 4, m)
    BY <1>3
  <2>3. m \in Nat /\ m # 0
    BY <1>3
  <2>. HIDE DEF m
  <2>0. m \in Nat \ {0} /\ m + 1 \in Nat \ {0}
    BY <1>0, <2>3, Zenon
  <2>2. ArePairs(s, j, m + 1) /\ m + 1 \in Nat \ {0}
    BY <2>0, <2>1, MorePairs, Zenon
  <2>4. CountAt(s, j) = m + 1
    BY <2>2, CountIs
  <2>. QED
    BY <2>4 DEF m
<1>6. CountAt(s, j) # 0 =>
          /\ PairAt(s, j)
          /\ \/ Lex(s, j + 3) = "}"
             \/ Lex(s, j + 3) = "," /\ CountAt(s, j + 4) # 0
  <2>. SUFFICES ASSUME CountAt(s, j) # 0
                PROVE  /\ PairAt(s, j)
                       /\ \/ Lex(s, j + 3) = "}"
                          \/ Lex(s, j + 3) = "," /\ CountAt(s, j + 4) # 0
    OBVIOUS
  <2>. DEFINE n == CountAt(s, j)
  <2>1. n \in Nat \ {0} /\ ArePairs(s, j, n)
    BY <1>2
  <2>. HIDE DEF n
  <2>2. n # 1 => n - 1 # 0
    BY <2>1
  <2>. QED
    BY <1>1, <2>1, <2>2, Zenon
<1>. QED
  BY <1>4, <1>5, <1>6

\* The walk of the parser counts the pairs: the count obeys its equation, and nothing else does.
LEMMA PairsAreCounted ==
    ASSUME NEW s \in Seq(Lexemes)
    PROVE  Pairs(s) = CountAt(s, 2)
<1>. DEFINE D == 1..(Len(s) + 4)
            Fits(f) == f = [i0 \in D |->
                               IF ~PairAt(s, i0) THEN 0
                               ELSE IF Lex(s, i0 + 3) = "}" THEN 1
                               ELSE IF Lex(s, i0 + 3) # "," \/ f[i0 + 4] = 0 THEN 0
                               ELSE f[i0 + 4] + 1]
            count == [j \in D |-> CountAt(s, j)]
            pairs == CHOOSE f : Fits(f)
<1>1. Len(s) \in Nat /\ 2 \in D
  OBVIOUS
<1>2. \A j \in D : j \in Nat /\ (PairAt(s, j) => j + 4 \in D)
  <2>. SUFFICES ASSUME NEW j \in D, PairAt(s, j) PROVE j + 4 \in D
    BY <1>1
  <2>1. Lex(s, j) # "end" /\ j \in Nat
    BY DEF PairAt
  <2>2. j \in 1..Len(s)
    BY <2>1, LexInside
  <2>. QED
    BY <1>1, <2>2
<1>3. Fits(count)
  <2>1. \A j \in D : count[j] = IF ~PairAt(s, j) THEN 0
                                ELSE IF Lex(s, j + 3) = "}" THEN 1
                                ELSE IF Lex(s, j + 3) # "," \/ count[j + 4] = 0 THEN 0
                                ELSE count[j + 4] + 1
    <3>. SUFFICES ASSUME NEW j \in D
                  PROVE  count[j] = IF ~PairAt(s, j) THEN 0
                                    ELSE IF Lex(s, j + 3) = "}" THEN 1
                                    ELSE IF Lex(s, j + 3) # "," \/ count[j + 4] = 0 THEN 0
                                    ELSE count[j + 4] + 1
      OBVIOUS
    <3>1. count[j] = CountAt(s, j) /\ (PairAt(s, j) => count[j + 4] = CountAt(s, j + 4))
      BY <1>2
    <3>. HIDE DEF count, D
    <3>2. CountAt(s, j) = IF ~PairAt(s, j) THEN 0
                          ELSE IF Lex(s, j + 3) = "}" THEN 1
                          ELSE IF Lex(s, j + 3) # "," \/ CountAt(s, j + 4) = 0 THEN 0
                          ELSE CountAt(s, j + 4) + 1
      <4>1. j \in Nat
        BY <1>2
      <4>. QED
        BY <4>1, CountStep
    <3>. QED
      BY <3>1, <3>2, Zenon
  <2>2. count = [j \in D |-> count[j]]
    OBVIOUS
  <2>. HIDE DEF count, D
  <2>. QED
    BY <2>1, <2>2
<1>4. Fits(pairs)
  <2>. HIDE DEF Fits, count
  <2>. QED
    BY <1>3
<1>5. Pairs(s) = pairs[2]
  BY DEF Pairs
<1>. HIDE DEF pairs
<1>6. \A j \in D : pairs[j] = IF ~PairAt(s, j) THEN 0
                              ELSE IF Lex(s, j + 3) = "}" THEN 1
                              ELSE IF Lex(s, j + 3) # "," \/ pairs[j + 4] = 0 THEN 0
                              ELSE pairs[j + 4] + 1
  <2>. HIDE DEF D
  <2>. QED
    BY <1>4
<1>. HIDE DEF Fits
<1>. DEFINE U == {j \in D : pairs[j] # CountAt(s, j)}
<1>7. U = {}
  <2>. SUFFICES ASSUME U # {} PROVE FALSE
    OBVIOUS
  <2>1. PICK m \in U : \A k \in U : k <= m
    <3>1. U \in SUBSET (1..(Len(s) + 4)) /\ Len(s) + 4 \in Nat
      BY <1>1
    <3>. HIDE DEF U
    <3>. QED
      BY <3>1, LastOfNumbers
  <2>2. m \in D /\ pairs[m] # CountAt(s, m) /\ m \in Nat
    OBVIOUS
  <2>3. PairAt(s, m) => pairs[m + 4] = CountAt(s, m + 4)
    <3>. SUFFICES ASSUME PairAt(s, m) PROVE pairs[m + 4] = CountAt(s, m + 4)
      OBVIOUS
    <3>1. m + 4 \in D /\ ~(m + 4 <= m)
      BY <1>2, <2>2
    <3>. QED
      BY <2>1, <3>1
  <2>. HIDE DEF U, D
  <2>. QED
    BY <1>6, <2>2, <2>3, CountStep
<1>. QED
  BY <1>1, <1>5, <1>7

\* What IsRaw and ArgumentCount say of a string.
LEMMA ArgumentsRead ==
    ASSUME NEW s \in Seq(Lexemes)
    PROVE  /\ IsRaw(s) <=> s # <<>> /\ \A n \in 0..Len(s) : ~IsObject(s, n)
           /\ ~IsRaw(s) /\ s # <<>> => IsObject(s, ArgumentCount(s))
           /\ ArgumentCount(s) \in Nat
<1>1. Pairs(s) \in Nat /\ (Pairs(s) # 0 => ArePairs(s, 2, Pairs(s)))
      /\ \A n \in Nat \ {0} : ArePairs(s, 2, n) => Pairs(s) = n
  BY PairsAreCounted, CountIs
<1>2. ASSUME NEW n \in Nat \ {0}
      PROVE  IsObject(s, n) <=> Lex(s, 1) = "{" /\ ArePairs(s, 2, n)
  <2>1. \A k \in 1..n : 2 + 4 * (k - 1) = 4 * k - 2 /\ 2 + 4 * k - 1 = 4 * k + 1
    OBVIOUS
  <2>2. ArePairs(s, 2, n) <=> \A k \in 1..n : /\ PairAt(s, 4 * k - 2)
                                              /\ Lex(s, 4 * k + 1) = IF k = n THEN "}" ELSE ","
    BY <2>1 DEF ArePairs
  <2>. QED
    BY <2>2 DEF IsObject
<1>3. IsObject(s, 0) <=> Lex(s, 1) = "{" /\ Lex(s, 2) = "}"
  BY DEF IsObject
<1>4. ASSUME NEW n \in Nat \ {0}, ArePairs(s, 2, n)
      PROVE  n \in 0..Len(s) /\ Lex(s, 2) # "}"
  <2>1. n \in 1..n /\ 1 \in 1..n /\ 2 + 4 * (1 - 1) = 2 /\ 2 + 4 * n - 1 \in Nat
    OBVIOUS
  <2>2. Lex(s, 2 + 4 * n - 1) = "}" /\ PairAt(s, 2)
    BY <1>4, <2>1 DEF ArePairs
  <2>3. 2 + 4 * n - 1 \in 1..Len(s)
    BY <2>1, <2>2, LexInside
  <2>4. n \in 0..Len(s)
    BY <2>3
  <2>5. Lex(s, 2) # "}"
    BY <2>2 DEF PairAt
  <2>. QED
    BY <2>4, <2>5
<1>5. ArgumentCount(s) \in Nat
  BY <1>1 DEF ArgumentCount
<1>6. CASE s = <<>>
  BY <1>5, <1>6 DEF IsRaw
<1>7. CASE s # <<>> /\ ~IsRaw(s)
  <2>1. Lex(s, 1) = "{" /\ (Lex(s, 2) = "}" \/ Pairs(s) # 0)
    BY <1>7 DEF IsRaw
  <2>2. CASE Lex(s, 2) = "}"
    <3>0. Len(s) \in Nat /\ 0 \in 0..Len(s)
      OBVIOUS
    <3>1. ArgumentCount(s) = 0 /\ 0 \in 0..Len(s)
      BY <2>2, <3>0, Zenon DEF ArgumentCount
    <3>. QED
      BY <1>3, <1>5, <1>7, <2>1, <2>2, <3>1
  <2>3. CASE Lex(s, 2) # "}"
    <3>1. ArgumentCount(s) = Pairs(s) /\ Pairs(s) \in Nat \ {0} /\ ArePairs(s, 2, Pairs(s))
      BY <1>1, <1>7, <2>1, <2>3 DEF ArgumentCount
    <3>2. IsObject(s, Pairs(s)) /\ Pairs(s) \in 0..Len(s)
      BY <1>2, <1>4, <2>1, <3>1
    <3>. QED
      BY <1>5, <1>7, <3>1, <3>2
  <2>. QED
    BY <2>2, <2>3
<1>8. CASE IsRaw(s)
  <2>1. Lex(s, 1) # "{" \/ (Lex(s, 2) # "}" /\ Pairs(s) = 0)
    BY <1>8 DEF IsRaw
  <2>2. ASSUME NEW n \in 0..Len(s) PROVE ~IsObject(s, n)
    <3>1. CASE n = 0
      BY <1>3, <2>1, <3>1
    <3>2. CASE n # 0
      <4>1. n \in Nat \ {0}
        BY <3>2
      <4>2. ~ArePairs(s, 2, n) \/ Lex(s, 1) # "{"
        BY <1>1, <2>1, <4>1
      <4>. QED
        BY <1>2, <4>1, <4>2
    <3>. QED
      BY <3>1, <3>2
  <2>3. s # <<>>
    BY <1>8 DEF IsRaw
  <2>. QED
    BY <1>5, <1>8, <2>2, <2>3
<1>. QED
  BY <1>6, <1>7, <1>8

-----------------------------------------------------------------------------
(***************************************************************************)
(* The order of results                                                    *)
(***************************************************************************)
LEMMA PositionIs ==
    ASSUME NEW cs \in Seq(Call), NEW id \in Ids(cs)
    PROVE  /\ Position(id, cs) \in 1..Len(cs)
           /\ cs[Position(id, cs)].id = id
           /\ \A l \in 1..(Position(id, cs) - 1) : cs[l].id # id
<1>. DEFINE T == {k \in 1..Len(cs) : cs[k].id = id}
<1>1. T \in SUBSET Nat /\ T # {}
  BY DEF Ids
<1>2. PICK k \in T : \A l \in T : k <= l
  <2>. HIDE DEF T
  <2>. QED
    BY <1>1, FirstOfNumbers
<1>3. k \in 1..Len(cs) /\ cs[k].id = id /\ Len(cs) \in Nat
  OBVIOUS
<1>4. \A l \in 1..(k - 1) : cs[l].id # id
  <2>. SUFFICES ASSUME NEW l \in 1..(k - 1), cs[l].id = id PROVE FALSE
    OBVIOUS
  <2>1. l \in 1..Len(cs) /\ ~(k <= l)
    BY <1>3
  <2>. QED
    BY <1>2, <2>1
<1>. QED
  BY <1>3, <1>4 DEF Position

\* A result that takes the name of its call is changed in nothing else.
LEMMA NamedType ==
    ASSUME NEW cs \in Seq(Call), NEW m \in Message, m.call \in Ids(cs)
    PROVE  /\ Named(m, cs) \in Message
           /\ Named(m, cs) = [m EXCEPT !.name = Named(m, cs).name]
           /\ [Named(m, cs) EXCEPT !.name = m.name] = m
           /\ cs[Position(m.call, cs)].name \in {Named(m, cs).name, Nothing}
<1>. DEFINE name == cs[Position(m.call, cs)].name
<1>1. name \in Names \cup {Nothing}
  <2>1. Position(m.call, cs) \in 1..Len(cs)
    BY PositionIs
  <2>2. cs[Position(m.call, cs)] \in Call
    BY <2>1
  <2>. QED
    BY <2>2 DEF Call
<1>2. Named(m, cs) = IF name = Nothing THEN m ELSE [m EXCEPT !.name = name]
  BY DEF Named
<1>. HIDE DEF name
<1>3. name \in {Named(m, cs).name, Nothing}
  BY <1>1, <1>2 DEF Message
<1>. QED
  BY <1>1, <1>2, <1>3 DEF Message, name

\* How results are ordered: each has one place, those before it sort before it, and they
\* take the names of their calls.
Arranges(f, ms, cs) ==
    /\ \A k, l \in 1..Len(ms) : f[k] = f[l] => k = l
    /\ \A l \in 1..Len(ms) : \E k \in 1..Len(ms) : f[k] = l
    /\ \A k \in 1..Len(ms) : /\ Ordered(ms, cs)[k] = Named(ms[f[k]], cs)
                             /\ Cardinality(Before(ms, cs, f[k])) = k - 1
    /\ \A k, l \in 1..Len(ms) : k < l => f[k] \in Before(ms, cs, f[l])

\* What EndRun appends is the run, rearranged by position of the calls if it matches.
LEMMA OrderedArranges ==
    ASSUME NEW ms \in Seq(Message), NEW cs \in Seq(Call)
    PROVE  /\ Ordered(ms, cs) \in Seq(Message)
           /\ Len(Ordered(ms, cs)) = Len(ms)
           /\ Matched(ms, cs) =>
                 \E f \in [1..Len(ms) -> 1..Len(ms)] : Arranges(f, ms, cs)
<1>1. CASE ~Matched(ms, cs)
  BY <1>1 DEF Ordered
<1>2. CASE Matched(ms, cs)
  <2>. DEFINE n == Len(ms)
              R == 1..n
              A == [k \in R |-> Before(ms, cs, k)]
              P(k) == Position(ms[k].call, cs)
              f == [k \in R |-> CHOOSE j \in R : Cardinality(Before(ms, cs, j)) = k - 1]
  <2>1. n \in Nat /\ IsFiniteSet(R) /\ Cardinality(R) = n
    <3>1. n \in Nat
      OBVIOUS
    <3>. HIDE DEF n
    <3>. QED
      BY <3>1, FS_Interval
  <2>2. \A k \in R : P(k) \in 1..Len(cs) /\ ms[k] \in Message /\ ms[k].call \in Ids(cs)
    BY <1>2, PositionIs DEF Matched
  <2>3. \A k \in R : P(k) \in Nat
    BY <2>2
  <2>4. /\ A \in [R -> SUBSET R]
        /\ \A k \in R : k \notin A[k]
        /\ \A k, l \in R : k # l => k \in A[l] \/ l \in A[k]
        /\ \A k, l \in R : l \in A[k] => A[l] \subseteq A[k]
    <3>1. \A k \in R : A[k] = {j \in R : P(j) < P(k) \/ (P(j) = P(k) /\ j < k)}
      BY DEF Before
    <3>2. A \in [R -> SUBSET R]
      <4>1. \A k \in R : A[k] \in SUBSET R
        BY <3>1
      <4>. QED
        BY <4>1
    <3>. HIDE DEF A, P
    <3>3. \A k \in R : k \notin A[k]
      BY <2>1, <2>3, <3>1
    <3>4. \A k, l \in R : k # l => k \in A[l] \/ l \in A[k]
      BY <2>1, <2>3, <3>1
    <3>5. \A k, l \in R : l \in A[k] => A[l] \subseteq A[k]
      <4>. SUFFICES ASSUME NEW k \in R, NEW l \in R, l \in A[k], NEW j \in A[l]
                    PROVE  j \in A[k]
        OBVIOUS
      <4>1. j \in R /\ (P(j) < P(l) \/ (P(j) = P(l) /\ j < l))
        BY <3>1
      <4>2. P(l) < P(k) \/ (P(l) = P(k) /\ l < k)
        BY <3>1
      <4>3. P(j) < P(k) \/ (P(j) = P(k) /\ j < k)
        BY <2>1, <2>3, <4>1, <4>2
      <4>. QED
        BY <3>1, <4>1, <4>3
    <3>. QED
      BY <3>2, <3>3, <3>4, <3>5
  <2>5. /\ \A k \in R : Cardinality(A[k]) \in 0..(Cardinality(R) - 1)
        /\ \A k, l \in R : l \in A[k] => Cardinality(A[l]) < Cardinality(A[k])
        /\ \A m \in 0..(Cardinality(R) - 1) : \E k \in R : Cardinality(A[k]) = m
    <3>. HIDE DEF A, R
    <3>. QED
      BY <2>1, <2>4, RanksAreReached
  <2>6. \A k \in R : f[k] \in R /\ Cardinality(A[f[k]]) = k - 1
    <3>. SUFFICES ASSUME NEW k \in R PROVE f[k] \in R /\ Cardinality(A[f[k]]) = k - 1
      OBVIOUS
    <3>1. k - 1 \in 0..(Cardinality(R) - 1)
      BY <2>1
    <3>2. \E j \in R : Cardinality(A[j]) = k - 1
      <4>. HIDE DEF A, R
      <4>. QED
        BY <2>5, <3>1
    <3>3. \E j \in R : Cardinality(Before(ms, cs, j)) = k - 1
      BY <3>2
    <3>4. f[k] \in R /\ Cardinality(Before(ms, cs, f[k])) = k - 1
      BY <3>3
    <3>. HIDE DEF f
    <3>. QED
      BY <3>4
  <2>7. f \in [R -> R]
    <3>1. \A k \in R : f[k] \in R
      BY <2>6
    <3>. QED
      BY <3>1
  <2>8. \A k \in R : Ordered(ms, cs)[k] = Named(ms[f[k]], cs)
    BY <1>2 DEF Ordered
  <2>9. Ordered(ms, cs) = [k \in R |-> Ordered(ms, cs)[k]]
    BY <1>2 DEF Ordered
  <2>. HIDE DEF f, A
  <2>10. \A k, l \in R : f[k] = f[l] => k = l
    BY <2>6
  <2>11. \A k, l \in R : k < l => f[k] \in A[f[l]]
    <3>. SUFFICES ASSUME NEW k \in R, NEW l \in R, k < l PROVE f[k] \in A[f[l]]
      OBVIOUS
    <3>1. f[k] \in R /\ f[l] \in R /\ f[k] # f[l]
      BY <2>6, <2>10
    <3>2. f[l] \in A[f[k]] => Cardinality(A[f[l]]) < Cardinality(A[f[k]])
      BY <2>5, <3>1
    <3>3. ~(l - 1 < k - 1)
      OBVIOUS
    <3>4. f[l] \notin A[f[k]]
      BY <2>6, <3>2, <3>3
    <3>. QED
      BY <2>4, <3>1, <3>4
  <2>12. \A l \in R : \E k \in R : f[k] = l
    <3>. SUFFICES ASSUME NEW l \in R PROVE \E k \in R : f[k] = l
      OBVIOUS
    <3>. DEFINE k == Cardinality(A[l]) + 1
    <3>1. k \in R /\ Cardinality(A[l]) = k - 1
      BY <2>1, <2>5
    <3>. HIDE DEF k
    <3>2. f[k] \in R /\ Cardinality(A[f[k]]) = Cardinality(A[l])
      BY <2>6, <3>1
    <3>3. f[k] \in A[l] => Cardinality(A[f[k]]) < Cardinality(A[l])
      BY <2>5, <3>2
    <3>4. l \in A[f[k]] => Cardinality(A[l]) < Cardinality(A[f[k]])
      BY <2>5, <3>2
    <3>5. Cardinality(A[l]) \in Int
      BY <2>1, <2>5
    <3>6. f[k] \notin A[l] /\ l \notin A[f[k]]
      BY <3>2, <3>3, <3>4, <3>5
    <3>. QED
      BY <2>4, <3>1, <3>2, <3>6
  <2>13. Arranges(f, ms, cs)
    <3>1. \A k \in R : A[k] = Before(ms, cs, k)
      BY DEF A
    <3>2. \A k \in R : /\ Ordered(ms, cs)[k] = Named(ms[f[k]], cs)
                        /\ Cardinality(Before(ms, cs, f[k])) = k - 1
      BY <2>6, <2>8, <3>1
    <3>3. \A k, l \in R : k < l => f[k] \in Before(ms, cs, f[l])
      BY <2>6, <2>11, <3>1
    <3>. QED
      BY <2>10, <2>12, <3>2, <3>3 DEF Arranges
  <2>14. \A k \in R : Ordered(ms, cs)[k] \in Message
    BY <2>2, <2>6, <2>8, NamedType
  <2>. QED
    BY <2>1, <2>7, <2>9, <2>13, <2>14
<1>. QED
  BY <1>1, <1>2

-----------------------------------------------------------------------------
(***************************************************************************)
(* Runs of results                                                         *)
(***************************************************************************)
\* From message b + 1 to message e there are results, and none before or behind.
IsRun(s, b, e) ==
    /\ b \in 0..Len(s) /\ e \in 0..Len(s) /\ b < e
    /\ \A k \in (b + 1)..e : s[k].role = "tool"
    /\ b # 0 => s[b].role # "tool"
    /\ e # Len(s) => s[e + 1].role # "tool"

\* Every result of the run answers a call of the last assistant.
Answering(s, b, e) == \A k \in (b + 1)..e : s[k].call \in Ids(CallsBefore(s, b + 1))

\* The run answers every call once.
IsComplete(s, b, e) ==
    LET cs == CallsBefore(s, b + 1)
    IN /\ e - b = Len(cs)
       /\ Cardinality(Ids(cs)) = Len(cs)
       /\ {s[k].call : k \in (b + 1)..e} = Ids(cs)

\* How o has the run: each message once, by position of their calls and with their names
\* if they answer some.
RunFits(s, o, b, e) ==
    LET cs == CallsBefore(s, b + 1)
    IN /\ \A p \in (b + 1)..e : /\ o[p].at \in (b + 1)..e
                                /\ [o[p] EXCEPT !.name = s[o[p].at].name] = s[o[p].at]
       /\ \A a0 \in (b + 1)..e : \E p \in (b + 1)..e : o[p].at = a0
       /\ Answering(s, b, e) =>
             /\ \A p \in (b + 1)..e : o[p] = Named(s[o[p].at], cs)
             /\ \A p, q \in (b + 1)..e :
                   p < q => Position(o[p].call, cs) <= Position(o[q].call, cs)
             /\ IsComplete(s, b, e) => \A p \in (b + 1)..e : Position(o[p].call, cs) = p - b
       /\ ~Answering(s, b, e) => \A p \in (b + 1)..e : o[p] = s[p]

\* The messages o that were put out are those of s, and each run that is among them is complete.
Arranged(s, o) ==
    /\ \A p \in 1..Len(o) : s[p].role # "tool" => o[p] = s[p]
    /\ \A b, e \in 0..Len(o) : IsRun(s, b, e) => RunFits(s, o, b, e)

\* The run of a message by its bounds is the run the properties speak of.
LEMMA RunIs ==
    ASSUME NEW s \in Seq(Message), NEW b, NEW e, IsRun(s, b, e),
           NEW p \in (b + 1)..e, NEW k \in 1..Len(s)
    PROVE  SameRun(s, p, k) <=> k \in (b + 1)..e
<1>1. b \in Nat /\ e \in Nat /\ Len(s) \in Nat /\ p \in Nat /\ k \in Nat
  BY DEF IsRun
<1>2. ASSUME k \in (b + 1)..e PROVE SameRun(s, p, k)
  <2>1. \A l \in p..k : l \in (b + 1)..e
    BY <1>1, <1>2
  <2>2. \A l \in k..p : l \in (b + 1)..e
    BY <1>1, <1>2
  <2>. QED
    BY <2>1, <2>2 DEF IsRun, SameRun, OneRun
<1>3. ASSUME SameRun(s, p, k), k \notin (b + 1)..e PROVE FALSE
  <2>1. CASE k < b + 1
    <3>1. b \in k..p /\ b # 0
      BY <1>1, <2>1
    <3>. QED
      BY <1>3, <3>1 DEF SameRun, OneRun, IsRun
  <2>2. CASE e < k
    <3>1. e + 1 \in p..k /\ e # Len(s)
      BY <1>1, <2>2
    <3>. QED
      BY <1>3, <3>1 DEF SameRun, OneRun, IsRun
  <2>. QED
    BY <1>1, <1>3, <2>1, <2>2
<1>. QED
  BY <1>2, <1>3

\* Two runs with a common message are one.
LEMMA RunsMeet ==
    ASSUME NEW s \in Seq(Message), NEW b, NEW e, IsRun(s, b, e), NEW c, NEW d, IsRun(s, c, d),
           NEW p \in (b + 1)..e, p \in (c + 1)..d
    PROVE  b = c /\ e = d
<1>1. b \in Nat /\ e \in Nat /\ c \in Nat /\ d \in Nat /\ Len(s) \in Nat /\ p \in Nat
  BY DEF IsRun
<1>2. ~(b < c)
  <2>. SUFFICES ASSUME b < c PROVE FALSE
    OBVIOUS
  <2>1. c \in (b + 1)..e /\ c # 0
    BY <1>1
  <2>. QED
    BY <2>1 DEF IsRun
<1>3. ~(c < b)
  <2>. SUFFICES ASSUME c < b PROVE FALSE
    OBVIOUS
  <2>1. b \in (c + 1)..d /\ b # 0
    BY <1>1
  <2>. QED
    BY <2>1 DEF IsRun
<1>4. ~(e < d)
  <2>. SUFFICES ASSUME e < d PROVE FALSE
    OBVIOUS
  <2>1. e + 1 \in (c + 1)..d /\ e # Len(s)
    <3>1. d <= Len(s)
      BY DEF IsRun
    <3>. QED
      BY <1>1, <3>1
  <2>. QED
    BY <2>1 DEF IsRun
<1>5. ~(d < e)
  <2>. SUFFICES ASSUME d < e PROVE FALSE
    OBVIOUS
  <2>1. d + 1 \in (b + 1)..e /\ d # Len(s)
    <3>1. e <= Len(s)
      BY DEF IsRun
    <3>. QED
      BY <1>1, <3>1
  <2>. QED
    BY <2>1 DEF IsRun
<1>. QED
  BY <1>1, <1>2, <1>3, <1>4, <1>5

\* Every result is in a run.
LEMMA RunExists ==
    ASSUME NEW s \in Seq(Message), NEW p \in 1..Len(s), s[p].role = "tool"
    PROVE  \E b, e \in 0..Len(s) : IsRun(s, b, e) /\ p \in (b + 1)..e
<1>1. Len(s) \in Nat /\ p \in Nat \ {0}
  OBVIOUS
<1>2. \E b \in 0..(p - 1) : /\ \A k \in (b + 1)..p : s[k].role = "tool"
                            /\ b # 0 => s[b].role # "tool"
  <2>. DEFINE T == {k \in 1..(p - 1) : s[k].role # "tool"}
  <2>1. CASE T = {}
    <3>1. \A k \in 1..p : k # p => k \in 1..(p - 1)
      BY <1>1
    <3>2. \A k \in (0 + 1)..p : s[k].role = "tool"
      BY <2>1, <3>1
    <3>3. 0 \in 0..(p - 1)
      BY <1>1
    <3>. QED
      BY <3>2, <3>3
  <2>2. CASE T # {}
    <3>1. p - 1 \in Nat /\ T \in SUBSET (1..(p - 1))
      BY <1>1
    <3>2. PICK b \in T : \A k \in T : k <= b
      <4>. HIDE DEF T
      <4>. QED
        BY <2>2, <3>1, LastOfNumbers
    <3>3. b \in 1..(p - 1) /\ s[b].role # "tool"
      BY <3>2
    <3>4. ASSUME NEW k \in (b + 1)..p PROVE s[k].role = "tool"
      <4>1. k = p \/ (k \in 1..(p - 1) /\ ~(k <= b))
        BY <1>1, <3>3
      <4>. QED
        BY <3>2, <4>1
    <3>5. b \in 0..(p - 1)
      BY <3>3
    <3>. QED
      BY <3>3, <3>4, <3>5
  <2>. QED
    BY <2>1, <2>2
<1>3. \E e \in p..Len(s) : /\ \A k \in p..e : s[k].role = "tool"
                           /\ e # Len(s) => s[e + 1].role # "tool"
  <2>. DEFINE T == {k \in (p + 1)..Len(s) : s[k].role # "tool"}
  <2>1. CASE T = {}
    <3>1. \A k \in p..Len(s) : k # p => k \in (p + 1)..Len(s)
      BY <1>1
    <3>2. \A k \in p..Len(s) : s[k].role = "tool"
      BY <2>1, <3>1
    <3>3. Len(s) \in p..Len(s)
      BY <1>1
    <3>. QED
      BY <3>2, <3>3
  <2>2. CASE T # {}
    <3>1. T \in SUBSET Nat
      BY <1>1
    <3>2. PICK n \in T : \A k \in T : n <= k
      <4>. HIDE DEF T
      <4>. QED
        BY <2>2, <3>1, FirstOfNumbers
    <3>3. n \in (p + 1)..Len(s) /\ s[n].role # "tool"
      BY <3>2
    <3>4. ASSUME NEW k \in p..(n - 1) PROVE s[k].role = "tool"
      <4>1. k = p \/ (k \in (p + 1)..Len(s) /\ ~(n <= k))
        BY <1>1, <3>3
      <4>. QED
        BY <3>2, <4>1
    <3>5. n - 1 \in p..Len(s) /\ (n - 1) + 1 = n
      BY <1>1, <3>3
    <3>. QED
      BY <3>3, <3>4, <3>5
  <2>. QED
    BY <2>1, <2>2
<1>4. PICK b \in 0..(p - 1) : /\ \A k \in (b + 1)..p : s[k].role = "tool"
                              /\ b # 0 => s[b].role # "tool"
  BY <1>2
<1>5. PICK e \in p..Len(s) : /\ \A k \in p..e : s[k].role = "tool"
                             /\ e # Len(s) => s[e + 1].role # "tool"
  BY <1>3
<1>6. /\ b \in 0..Len(s) /\ e \in 0..Len(s) /\ b < e /\ p \in (b + 1)..e
      /\ \A k \in (b + 1)..e : k \in (b + 1)..p \/ k \in p..e
  BY <1>1
<1>7. IsRun(s, b, e)
  BY <1>4, <1>5, <1>6 DEF IsRun
<1>. QED
  BY <1>6, <1>7

\* The last assistant before message n is the latest of these.
Assistants(s, n) == {k \in 1..(n - 1) : s[k].role = "assistant"}
Latest(S) == CHOOSE k \in S : \A l \in S : l <= k

\* CallsBefore, without the choice inside.
LEMMA CallsBeforeIs ==
    ASSUME NEW s, NEW n
    PROVE  CallsBefore(s, n) =
               IF Assistants(s, n) = {} THEN <<>>
               ELSE s[Latest(Assistants(s, n))].calls
  BY DEF CallsBefore, Assistants, Latest

\* The calls before a message, one message later.
LEMMA CallsAfter ==
    ASSUME NEW s \in Seq(Message), NEW n \in 1..Len(s)
    PROVE  CallsBefore(s, n + 1) =
               IF s[n].role = "assistant" THEN s[n].calls ELSE CallsBefore(s, n)
<1>. DEFINE A(m) == {k \in 1..(m - 1) : s[k].role = "assistant"}
<1>1. n \in Nat /\ (n + 1) - 1 = n /\ \A k \in 1..n : k # n => k \in 1..(n - 1)
  OBVIOUS
<1>2. CASE s[n].role = "assistant"
  <2>1. n \in A(n + 1) /\ \A k \in A(n + 1) : k <= n /\ k \in Nat
    BY <1>1, <1>2
  <2>2. \A k \in A(n + 1) : (\A l \in A(n + 1) : l <= k) => k = n
    <3>. HIDE DEF A
    <3>1. \A k \in A(n + 1) : k <= n /\ n <= k => k = n
      BY <1>1, <2>1
    <3>. QED
      BY <2>1, <3>1
  <2>. DEFINE last == CHOOSE k \in A(n + 1) : \A l \in A(n + 1) : l <= k
  <2>3. last = n
    <3>. HIDE DEF A
    <3>. QED
      BY <2>1, <2>2
  <2>4. CallsBefore(s, n + 1) = s[last].calls
    BY <2>1 DEF CallsBefore
  <2>. HIDE DEF last
  <2>. QED
    BY <1>2, <2>3, <2>4
<1>3. CASE s[n].role # "assistant"
  <2>1. Assistants(s, n + 1) = Assistants(s, n)
    BY <1>1, <1>3 DEF Assistants
  <2>2. CallsBefore(s, n + 1) = CallsBefore(s, n)
    BY <2>1, CallsBeforeIs
  <2>. QED
    BY <1>3, <2>2
<1>. QED
  BY <1>2, <1>3

\* Results do not change which calls are the last.
LEMMA CallsBeforeRun ==
    ASSUME NEW s \in Seq(Message), NEW b \in 0..Len(s), NEW e \in b..Len(s),
           \A k \in (b + 1)..e : s[k].role = "tool"
    PROVE  \A p \in (b + 1)..(e + 1) : CallsBefore(s, p) = CallsBefore(s, b + 1)
<1>. SUFFICES ASSUME NEW p \in (b + 1)..(e + 1) PROVE CallsBefore(s, p) = CallsBefore(s, b + 1)
  OBVIOUS
<1>1. Assistants(s, p) = Assistants(s, b + 1)
  <2>1. \A k \in 1..(p - 1) : k \in 1..((b + 1) - 1) \/ k \in (b + 1)..e
    OBVIOUS
  <2>2. \A k \in 1..((b + 1) - 1) : k \in 1..(p - 1)
    OBVIOUS
  <2>. QED
    BY <2>1, <2>2 DEF Assistants
<1>. QED
  BY <1>1, CallsBeforeIs

\* The calls before a message are calls.
LEMMA CallsBeforeType ==
    ASSUME NEW s \in Seq(Message), NEW n \in 1..(Len(s) + 1)
    PROVE  CallsBefore(s, n) \in Seq(Call)
<1>. DEFINE A == {k \in 1..(n - 1) : s[k].role = "assistant"}
<1>1. CASE A = {}
  BY <1>1 DEF CallsBefore
<1>2. CASE A # {}
  <2>. DEFINE last == CHOOSE k \in A : \A l \in A : l <= k
  <2>1. n - 1 \in Nat /\ A \in SUBSET (1..(n - 1))
    OBVIOUS
  <2>2. last \in A
    <3>. HIDE DEF A
    <3>. QED
      BY <1>2, <2>1, LastOfNumbers
  <2>3. CallsBefore(s, n) = s[last].calls
    BY <1>2 DEF CallsBefore
  <2>. HIDE DEF last
  <2>4. last \in 1..Len(s)
    BY <2>2
  <2>5. s[last] \in Message
    BY <2>4
  <2>. QED
    BY <2>3, <2>5 DEF Message
<1>. QED
  BY <1>1, <1>2

\* How many numbers there are up to n.
LEMMA NumbersUpTo ==
    ASSUME NEW n \in Nat
    PROVE  IsFiniteSet(1..n) /\ Cardinality(1..n) = n
  BY FS_Interval

\* In a run that answers every call once, as many results sort before one as calls do
\* before its call.
LEMMA CompleteRank ==
    ASSUME NEW r \in Seq(Message), NEW cs \in Seq(Call), Len(r) = Len(cs),
           Cardinality(Ids(cs)) = Len(cs), {r[k].call : k \in 1..Len(r)} = Ids(cs),
           NEW j \in 1..Len(r)
    PROVE  Cardinality(Before(r, cs, j)) = Position(r[j].call, cs) - 1
<1>. DEFINE n == Len(r)
            R == 1..n
            P(k) == Position(r[k].call, cs)
            g == [k \in R |-> P(k)]
            h == [k \in R |-> r[k].call]
            B == Before(r, cs, j)
            D == 1..(P(j) - 1)
            gb == [k \in B |-> P(k)]
<1>1. n \in Nat /\ IsFiniteSet(R) /\ Cardinality(R) = n /\ Len(cs) = n
  BY NumbersUpTo
<1>2. \A k \in R : r[k].call \in Ids(cs)
  OBVIOUS
<1>3. \A k \in R : P(k) \in R /\ cs[P(k)].id = r[k].call
  BY <1>1, <1>2, PositionIs
<1>4. \A k, l \in R : r[k].call = r[l].call => k = l
  <2>1. h \in Surjection(R, Ids(cs))
    <3>1. h \in [R -> Ids(cs)]
      BY <1>2
    <3>2. \A id \in Ids(cs) : \E k \in R : h[k] = id
      OBVIOUS
    <3>. HIDE DEF h, R
    <3>. QED
      BY <3>1, <3>2 DEF Surjection
  <2>2. h \in Injection(R, Ids(cs))
    <3>1. Cardinality(R) = Cardinality(Ids(cs))
      BY <1>1
    <3>. HIDE DEF h, R
    <3>. QED
      BY <1>1, <2>1, <3>1, FS_SurjSameCardinalityImpliesInj
  <2>3. \A k, l \in R : h[k] = h[l] => k = l
    <3>. HIDE DEF h, R
    <3>. QED
      BY <2>2 DEF Injection, IsInjective
  <2>. QED
    BY <2>3
<1>5. \A k, l \in R : P(k) = P(l) => k = l
  <2>. HIDE DEF P
  <2>. QED
    BY <1>3, <1>4
<1>6. g \in Injection(R, R)
  <2>1. g \in [R -> R]
    BY <1>3
  <2>2. \A k, l \in R : g[k] = g[l] => k = l
    BY <1>5
  <2>. HIDE DEF g, R
  <2>. QED
    BY <2>1, <2>2 DEF Injection, IsInjective
<1>7. \A m \in R : \E k \in R : P(k) = m
  <2>1. g \in Surjection(R, R)
    <3>. HIDE DEF g, R
    <3>. QED
      BY <1>1, <1>6, FS_Injection
  <2>2. \A m \in R : \E k \in R : g[k] = m
    <3>. HIDE DEF g, R
    <3>. QED
      BY <2>1 DEF Surjection
  <2>. QED
    BY <2>2
<1>8. B = {k \in R : P(k) < P(j)}
  <2>1. B = {k \in R : P(k) < P(j) \/ (P(k) = P(j) /\ k < j)}
    BY DEF Before
  <2>2. \A k \in R : ~(P(k) = P(j) /\ k < j)
    <3>. SUFFICES ASSUME NEW k \in R, P(k) = P(j), k < j PROVE FALSE
      OBVIOUS
    <3>1. k = j
      BY <1>5
    <3>. QED
      BY <3>1
  <2>. HIDE DEF P, R, B
  <2>. QED
    BY <2>1, <2>2
<1>9. gb \in Bijection(B, D)
  <2>. HIDE DEF B, P
  <2>1. \A k \in B : P(k) \in D
    BY <1>1, <1>3, <1>8
  <2>2. gb \in [B -> D]
    <3>. HIDE DEF D
    <3>. QED
      BY <2>1
  <2>3. \A k, l \in B : gb[k] = gb[l] => k = l
    BY <1>5, <1>8
  <2>4. \A m \in D : \E k \in B : gb[k] = m
    <3>. SUFFICES ASSUME NEW m \in D PROVE \E k \in B : gb[k] = m
      OBVIOUS
    <3>1. P(j) \in R /\ m \in R /\ m < P(j)
      BY <1>1, <1>3
    <3>2. PICK k \in R : P(k) = m
      BY <1>7, <3>1
    <3>3. k \in B
      BY <1>8, <3>1, <3>2
    <3>. QED
      BY <3>2, <3>3
  <2>. HIDE DEF gb, D
  <2>. QED
    BY <2>2, <2>3, <2>4 DEF Bijection, Injection, Surjection, IsInjective
<1>10. IsFiniteSet(B)
  <2>1. B \in SUBSET R
    BY <1>8
  <2>. HIDE DEF B, R
  <2>. QED
    BY <1>1, <2>1, FS_Subset
<1>11. Cardinality(D) = Cardinality(B)
  <2>. HIDE DEF gb, B, D
  <2>. QED
    BY <1>9, <1>10, FS_Bijection DEF ExistsBijection
<1>12. Cardinality(D) = P(j) - 1
  <2>1. P(j) \in R
    BY <1>3
  <2>2. P(j) - 1 \in Nat
    BY <1>1, <2>1
  <2>. HIDE DEF P
  <2>. QED
    BY <2>2, NumbersUpTo
<1>. QED
  BY <1>11, <1>12

\* The run r, from message b + 1 to message e, is put out as RunFits says.
LEMMA RunIsArranged ==
    ASSUME NEW s \in Seq(Message), \A k \in 1..Len(s) : s[k].at = k,
           NEW b, NEW e, IsRun(s, b, e), NEW r \in Seq(Message), Len(r) = e - b,
           \A k \in 1..Len(r) : r[k] = s[b + k],
           NEW o, \A k \in 1..Len(r) : o[b + k] = Ordered(r, CallsBefore(s, b + 1))[k]
    PROVE  RunFits(s, o, b, e)
<1>. DEFINE cs == CallsBefore(s, b + 1)
            n == Len(r)
            w == Ordered(r, cs)
<1>1. /\ b \in Nat /\ e \in Nat /\ e <= Len(s) /\ Len(s) \in Nat /\ n \in Nat /\ n = e - b
      /\ b + 1 \in 1..(Len(s) + 1)
  BY DEF IsRun
<1>2. cs \in Seq(Call)
  BY <1>1, CallsBeforeType
<1>3. \A p \in (b + 1)..e : p - b \in 1..n /\ b + (p - b) = p /\ p \in 1..Len(s)
  BY <1>1
<1>4. \A k \in 1..n : b + k \in (b + 1)..e /\ (b + k) - b = k /\ b + k \in 1..Len(s)
  BY <1>1
<1>5. \A k \in 1..n : r[k] \in Message /\ r[k] = s[b + k] /\ r[k].at = b + k
  BY <1>4
<1>. HIDE DEF cs, n, w
<1>6. Answering(s, b, e) <=> Matched(r, cs)
  <2>1. ASSUME Answering(s, b, e) PROVE Matched(r, cs)
    <3>1. \A k \in 1..n : r[k].call \in Ids(cs)
      BY <1>4, <1>5, <2>1 DEF Answering, cs
    <3>. QED
      BY <3>1 DEF Matched, n
  <2>2. ASSUME Matched(r, cs) PROVE Answering(s, b, e)
    <3>1. \A k \in (b + 1)..e : s[k].call \in Ids(cs)
      BY <1>3, <1>5, <2>2 DEF Matched, n
    <3>. QED
      BY <3>1 DEF Answering, cs
  <2>. QED
    BY <2>1, <2>2
<1>7. \A p \in (b + 1)..e : o[p] = w[p - b]
  <2>. SUFFICES ASSUME NEW p \in (b + 1)..e PROVE o[p] = w[p - b]
    OBVIOUS
  <2>1. p - b \in 1..n /\ o[b + (p - b)] = w[p - b]
    BY <1>3 DEF n, w, cs
  <2>. QED
    BY <1>3, <2>1
<1>8. CASE ~Matched(r, cs)
  <2>1. w = r
    BY <1>8 DEF w, Ordered
  <2>2. \A p \in (b + 1)..e : o[p] = s[p] /\ o[p].at = p /\ s[p] \in Message
    BY <1>3, <1>5, <1>7, <2>1
  <2>3. \A p \in (b + 1)..e : /\ o[p].at \in (b + 1)..e
                              /\ [o[p] EXCEPT !.name = s[o[p].at].name] = s[o[p].at]
    <3>. SUFFICES ASSUME NEW p \in (b + 1)..e
                  PROVE  [o[p] EXCEPT !.name = s[o[p].at].name] = s[o[p].at]
      BY <2>2
    <3>1. o[p] = s[p] /\ s[o[p].at] = s[p] /\ s[p] \in Message
      BY <2>2
    <3>2. [s[p] EXCEPT !.name = s[p].name] = s[p]
      BY <3>1 DEF Message
    <3>. QED
      BY <3>1, <3>2
  <2>. QED
    BY <1>6, <1>8, <2>2, <2>3 DEF RunFits, cs
<1>9. CASE Matched(r, cs)
  <2>1. PICK f \in [1..n -> 1..n] : Arranges(f, r, cs)
    BY <1>2, <1>9, OrderedArranges DEF n
  <2>2. /\ \A k \in 1..n : /\ f[k] \in 1..n
                           /\ w[k] = Named(r[f[k]], cs)
                           /\ Cardinality(Before(r, cs, f[k])) = k - 1
        /\ \A l \in 1..n : \E k \in 1..n : f[k] = l
        /\ \A k, l \in 1..n : k < l => f[k] \in Before(r, cs, f[l])
    BY <2>1 DEF Arranges, n, w
  <2>3. \A k \in 1..n : r[k].call \in Ids(cs)
    BY <1>9 DEF Matched, n
  <2>4. ASSUME NEW p \in (b + 1)..e
        PROVE  /\ o[p] = Named(s[b + f[p - b]], cs)
               /\ o[p].at = b + f[p - b]
               /\ o[p].call = r[f[p - b]].call
               /\ o[p].call \in Ids(cs)
               /\ [o[p] EXCEPT !.name = s[b + f[p - b]].name] = s[b + f[p - b]]
               /\ b + f[p - b] \in (b + 1)..e
    <3>. DEFINE k == f[p - b]
                m == r[k]
    <3>1. k \in 1..n /\ o[p] = Named(m, cs) /\ m = s[b + k] /\ m.at = b + k /\ m \in Message
          /\ m.call \in Ids(cs) /\ b + k \in (b + 1)..e
      BY <1>3, <1>4, <1>5, <1>7, <2>2, <2>3
    <3>. HIDE DEF k, m
    <3>2. /\ Named(m, cs) = [m EXCEPT !.name = Named(m, cs).name]
          /\ [Named(m, cs) EXCEPT !.name = m.name] = m
      BY <1>2, <3>1, NamedType
    <3>3. Named(m, cs).at = m.at /\ Named(m, cs).call = m.call
      BY <3>1, <3>2 DEF Message
    <3>. QED
      BY <3>1, <3>2, <3>3 DEF k, m
  <2>5. \A p \in (b + 1)..e : /\ o[p].at \in (b + 1)..e
                              /\ [o[p] EXCEPT !.name = s[o[p].at].name] = s[o[p].at]
                              /\ o[p] = Named(s[o[p].at], cs)
    BY <2>4
  <2>6. ASSUME NEW a0 \in (b + 1)..e PROVE \E p \in (b + 1)..e : o[p].at = a0
    <3>1. a0 - b \in 1..n /\ b + (a0 - b) = a0
      BY <1>3
    <3>2. PICK k \in 1..n : f[k] = a0 - b
      BY <2>2, <3>1
    <3>3. b + k \in (b + 1)..e /\ (b + k) - b = k
      BY <1>4
    <3>4. o[b + k].at = b + f[k]
      BY <2>4, <3>3
    <3>. QED
      BY <3>1, <3>2, <3>3, <3>4
  <2>7. ASSUME NEW p \in (b + 1)..e, NEW q \in (b + 1)..e, p < q
        PROVE  Position(o[p].call, cs) <= Position(o[q].call, cs)
    <3>1. p - b \in 1..n /\ q - b \in 1..n /\ p - b < q - b
      BY <1>1, <1>3, <2>7
    <3>2. f[p - b] \in Before(r, cs, f[q - b])
      BY <2>2, <3>1
    <3>3. /\ o[p].call = r[f[p - b]].call /\ o[q].call = r[f[q - b]].call
          /\ o[p].call \in Ids(cs) /\ o[q].call \in Ids(cs)
      BY <2>4
    <3>4. Position(o[p].call, cs) \in 1..Len(cs) /\ Position(o[q].call, cs) \in 1..Len(cs)
      BY <1>2, <3>3, PositionIs
    <3>5. \/ Position(o[p].call, cs) < Position(o[q].call, cs)
          \/ Position(o[p].call, cs) = Position(o[q].call, cs)
      BY <3>2, <3>3 DEF Before
    <3>. QED
      BY <3>4, <3>5
  <2>8. ASSUME IsComplete(s, b, e), NEW p \in (b + 1)..e
        PROVE  Position(o[p].call, cs) = p - b
    <3>1. /\ n = Len(cs) /\ Cardinality(Ids(cs)) = Len(cs)
          /\ {s[k].call : k \in (b + 1)..e} = Ids(cs)
      BY <1>1, <2>8 DEF IsComplete, cs
    <3>2. {r[k].call : k \in 1..n} = Ids(cs)
      <4>1. ASSUME NEW k \in 1..n PROVE r[k].call \in Ids(cs)
        BY <2>3
      <4>2. ASSUME NEW id \in Ids(cs) PROVE \E k \in 1..n : id = r[k].call
        <5>1. PICK k \in (b + 1)..e : id = s[k].call
          BY <3>1
        <5>2. k - b \in 1..n /\ r[k - b] = s[k]
          BY <1>3, <1>5
        <5>. QED
          BY <5>1, <5>2
      <4>. QED
        BY <4>1, <4>2
    <3>3. p - b \in 1..n /\ f[p - b] \in 1..n
      BY <1>3, <2>2
    <3>4. Cardinality(Before(r, cs, f[p - b])) = Position(r[f[p - b]].call, cs) - 1
      BY <1>2, <3>1, <3>2, <3>3, CompleteRank DEF n
    <3>5. Cardinality(Before(r, cs, f[p - b])) = (p - b) - 1
      BY <2>2, <3>3
    <3>6. Position(r[f[p - b]].call, cs) \in 1..Len(cs)
      BY <1>2, <2>3, <3>3, PositionIs
    <3>7. Position(r[f[p - b]].call, cs) = p - b
      <4>. DEFINE x == Position(r[f[p - b]].call, cs)
                  y == p - b
      <4>1. x \in 1..Len(cs) /\ Len(cs) \in Nat /\ y \in 1..n /\ x - 1 = y - 1
        BY <1>1, <1>2, <3>3, <3>4, <3>5, <3>6
      <4>. HIDE DEF x, y
      <4>2. x \in Int /\ y \in Int /\ x - 1 = y - 1
        BY <1>1, <4>1
      <4>3. x = y
        BY <4>2
      <4>. QED
        BY <4>3 DEF x, y
    <3>. QED
      BY <2>4, <3>7
  <2>9. \A p, q \in (b + 1)..e : p < q => Position(o[p].call, cs) <= Position(o[q].call, cs)
    BY <2>7
  <2>. QED
    BY <1>6, <1>9, <2>5, <2>6, <2>8, <2>9 DEF RunFits, cs
<1>. QED
  BY <1>8, <1>9


\* Whether a run fits depends on its own messages only.
LEMMA FitsSame ==
    ASSUME NEW s, NEW o, NEW w, NEW b, NEW e, RunFits(s, o, b, e),
           \A p \in (b + 1)..e : w[p] = o[p]
    PROVE  RunFits(s, w, b, e)
<1>. DEFINE R == (b + 1)..e
            cs == CallsBefore(s, b + 1)
            complete == IsComplete(s, b, e)
            answering == Answering(s, b, e)
<1>1. /\ \A p \in R : o[p].at \in R /\ [o[p] EXCEPT !.name = s[o[p].at].name] = s[o[p].at]
      /\ \A a0 \in R : \E p \in R : o[p].at = a0
      /\ answering =>
            /\ \A p \in R : o[p] = Named(s[o[p].at], cs)
            /\ \A p, q \in R : p < q => Position(o[p].call, cs) <= Position(o[q].call, cs)
            /\ complete => \A p \in R : Position(o[p].call, cs) = p - b
      /\ ~answering => \A p \in R : o[p] = s[p]
  BY DEF RunFits
<1>2. \A p \in R : w[p] = o[p]
  OBVIOUS
<1>. HIDE DEF R, cs, complete, answering
<1>3. /\ \A p \in R : w[p].at \in R /\ [w[p] EXCEPT !.name = s[w[p].at].name] = s[w[p].at]
      /\ \A a0 \in R : \E p \in R : w[p].at = a0
  BY <1>1, <1>2
<1>4. ASSUME answering
      PROVE  /\ \A p \in R : w[p] = Named(s[w[p].at], cs)
             /\ \A p, q \in R : p < q => Position(w[p].call, cs) <= Position(w[q].call, cs)
             /\ complete => \A p \in R : Position(w[p].call, cs) = p - b
  <2>1. \A p \in R : w[p] = Named(s[w[p].at], cs)
    BY <1>1, <1>2, <1>4
  <2>2. \A p, q \in R : p < q => Position(w[p].call, cs) <= Position(w[q].call, cs)
    BY <1>1, <1>2, <1>4
  <2>3. complete => \A p \in R : Position(w[p].call, cs) = p - b
    BY <1>1, <1>2, <1>4
  <2>. QED
    BY <2>1, <2>2, <2>3
<1>5. ~answering => \A p \in R : w[p] = s[p]
  BY <1>1, <1>2
<1>. QED
  BY <1>3, <1>4, <1>5 DEF RunFits, R, cs, complete, answering

\* A message of another role, put out behind what is there.
LEMMA PassArranges ==
    ASSUME NEW s \in Seq(Message), NEW o \in Seq(Message), Len(o) < Len(s),
           s[Len(o) + 1].role # "tool", Arranged(s, o)
    PROVE  Arranged(s, Append(o, s[Len(o) + 1]))
<1>. DEFINE n == Len(o)
            w == Append(o, s[n + 1])
<1>1. n \in Nat /\ Len(s) \in Nat /\ n + 1 \in 1..Len(s)
  OBVIOUS
<1>2. Len(w) = n + 1 /\ w[n + 1] = s[n + 1] /\ \A p \in 1..n : w[p] = o[p]
  BY <1>1
<1>3. /\ \A p \in 1..n : s[p].role # "tool" => o[p] = s[p]
      /\ \A b, e \in 0..n : IsRun(s, b, e) => RunFits(s, o, b, e)
      /\ s[n + 1].role # "tool"
  BY DEF Arranged
<1>. HIDE DEF n, w
<1>4. ASSUME NEW p \in 1..Len(w), s[p].role # "tool" PROVE w[p] = s[p]
  <2>1. p = n + 1 \/ p \in 1..n
    BY <1>1, <1>2
  <2>. QED
    BY <1>2, <1>3, <1>4, <2>1
<1>5. ASSUME NEW b \in 0..Len(w), NEW e \in 0..Len(w), IsRun(s, b, e)
      PROVE  RunFits(s, w, b, e)
  <2>1. b < e /\ s[e].role = "tool"
    <3>1. b \in Nat /\ e \in Nat /\ b < e
      BY <1>1, <1>2, <1>5 DEF IsRun
    <3>2. e \in (b + 1)..e
      BY <3>1
    <3>. QED
      BY <1>5, <3>1, <3>2 DEF IsRun
  <2>2. e # n + 1
    BY <1>3, <2>1
  <2>3. b \in 0..n /\ e \in 0..n /\ \A p \in (b + 1)..e : p \in 1..n
    BY <1>1, <1>2, <2>1, <2>2
  <2>4. RunFits(s, o, b, e)
    BY <1>3, <1>5, <2>3
  <2>5. \A p \in (b + 1)..e : w[p] = o[p]
    BY <1>2, <2>3
  <2>. QED
    BY <2>4, <2>5, FitsSame
<1>6. Arranged(s, w)
  BY <1>4, <1>5 DEF Arranged
<1>. QED
  BY <1>6 DEF w, n

\* A whole run, put out behind what is there.
LEMMA EndRunArranges ==
    ASSUME NEW s \in Seq(Message), \A k \in 1..Len(s) : s[k].at = k,
           NEW o \in Seq(Message), NEW r \in Seq(Message),
           IsRun(s, Len(o), Len(o) + Len(r)), Arranged(s, o),
           \A k \in 1..Len(r) : r[k] = s[Len(o) + k]
    PROVE  Arranged(s, o \o Ordered(r, CallsBefore(s, Len(o) + 1)))
<1>. DEFINE n == Len(o)
            m == Len(r)
            x == Ordered(r, CallsBefore(s, n + 1))
            w == o \o x
<1>1. n \in Nat /\ m \in Nat /\ Len(s) \in Nat /\ n + m <= Len(s) /\ 0 < m
  BY DEF IsRun
<1>2. x \in Seq(Message) /\ Len(x) = m
  <2>1. n + 1 \in 1..(Len(s) + 1)
    BY <1>1
  <2>2. CallsBefore(s, n + 1) \in Seq(Call)
    BY <2>1, CallsBeforeType
  <2>. QED
    BY <2>2, OrderedArranges
<1>. HIDE DEF x
<1>3. /\ Len(w) = n + m
      /\ \A p \in 1..n : w[p] = o[p]
      /\ \A k \in 1..m : w[n + k] = x[k]
  BY <1>1, <1>2
<1>. HIDE DEF w
<1>4. /\ \A p \in 1..n : s[p].role # "tool" => o[p] = s[p]
      /\ \A b, e \in 0..n : IsRun(s, b, e) => RunFits(s, o, b, e)
      /\ IsRun(s, n, n + m)
  BY DEF Arranged
<1>5. RunFits(s, w, n, n + m)
  <2>1. m = (n + m) - n
    BY <1>1
  <2>2. \A k \in 1..m : w[n + k] = Ordered(r, CallsBefore(s, n + 1))[k]
    BY <1>3 DEF x
  <2>3. \A k \in 1..m : r[k] = s[n + k]
    OBVIOUS
  <2>. QED
    BY <1>4, <2>1, <2>2, <2>3, RunIsArranged
<1>6. ASSUME NEW p \in 1..Len(w), s[p].role # "tool" PROVE w[p] = s[p]
  <2>1. p \in 1..n \/ p \in (n + 1)..(n + m)
    BY <1>1, <1>3
  <2>2. \A k \in (n + 1)..(n + m) : s[k].role = "tool"
    BY <1>4 DEF IsRun
  <2>. QED
    BY <1>3, <1>4, <1>6, <2>1, <2>2
<1>7. ASSUME NEW b \in 0..Len(w), NEW e \in 0..Len(w), IsRun(s, b, e)
      PROVE  RunFits(s, w, b, e)
  <2>1. b \in Nat /\ e \in Nat /\ b < e /\ e <= n + m
    BY <1>1, <1>3, <1>7 DEF IsRun
  <2>2. CASE e <= n
    <3>1. b \in 0..n /\ e \in 0..n /\ \A p \in (b + 1)..e : p \in 1..n
      BY <1>1, <2>1, <2>2
    <3>2. RunFits(s, o, b, e)
      BY <1>4, <1>7, <3>1
    <3>3. \A p \in (b + 1)..e : w[p] = o[p]
      BY <1>3, <3>1
    <3>. QED
      BY <3>2, <3>3, FitsSame
  <2>3. CASE n < e
    <3>1. e \in (b + 1)..e /\ e \in (n + 1)..(n + m)
      BY <1>1, <2>1, <2>3
    <3>2. b = n /\ e = n + m
      BY <1>4, <1>7, <3>1, RunsMeet
    <3>. QED
      BY <1>5, <3>2
  <2>. QED
    BY <1>1, <2>1, <2>2, <2>3
<1>8. Arranged(s, w)
  BY <1>6, <1>7 DEF Arranged
<1>. QED
  BY <1>8 DEF w, x, n

-----------------------------------------------------------------------------
(***************************************************************************)
(* What holds while results are put in order                               *)
(***************************************************************************)
\* The messages before the run are put out, the run is what was read since.
Reading ==
    /\ Len(ordered) + Len(run) = next - 1
    /\ \A k \in 1..Len(run) : run[k] = sent[Len(ordered) + k] /\ run[k].role = "tool"
    /\ calls = CallsBefore(sent, Len(ordered) + 1)
    /\ run # <<>> \/ InRun => Len(ordered) = 0 \/ sent[Len(ordered)].role # "tool"

\* What of the shape of the state the order depends on.
OrderTypeOK ==
    /\ sent \in Seq(Message) /\ ordered \in Seq(Message) /\ run \in Seq(Message)
    /\ calls \in Seq(Call)
    /\ stage \in {"order", "begin", "render", "encode", "done"}
    /\ next \in 1..(Len(sent) + 1)
    /\ toolIndex \in Nat
    /\ error \in {"none", "effort", "message"}

\* What is put out is arranged, and while the loop goes on the rest is in hand or not yet read.
OrderInv ==
    /\ OrderTypeOK
    /\ \A k \in 1..Len(sent) : sent[k].at = k
    /\ Len(ordered) <= Len(sent)
    /\ Arranged(sent, ordered)
    /\ stage = "order" => Reading
    /\ stage # "order" => Len(ordered) = Len(sent)

\* The invariant of ordering holds at first, and each action keeps it.
LEMMA OrderInit == K3Init => OrderInv
<1>. SUFFICES ASSUME NEW r \in Requests, K3Start(r) PROVE OrderInv
  BY DEF K3Init
<1>. USE DEF K3Start
<1>1. sent \in Seq(Message) /\ \A k \in 1..Len(sent) : sent[k].at = k
  BY RequestsAssumption
<1>2. Len(sent) \in Nat
  BY <1>1
<1>3. OrderTypeOK
  BY <1>1, <1>2 DEF OrderTypeOK
<1>4. Len(ordered) = 0 /\ Len(run) = 0 /\ 0 + 1 = 1 /\ next - 1 = 0 + 0
  OBVIOUS
<1>5. Arranged(sent, ordered)
  <2>1. \A b, e \in 0..0 : ~(b < e)
    OBVIOUS
  <2>. QED
    BY <1>4, <2>1 DEF Arranged, IsRun
<1>6. CallsBefore(sent, 1) = <<>>
  <2>1. Assistants(sent, 1) = {}
    BY DEF Assistants
  <2>. QED
    BY <2>1, CallsBeforeIs
<1>7. Reading
  BY <1>4, <1>6 DEF Reading
<1>. QED
  BY <1>1, <1>2, <1>3, <1>4, <1>5, <1>7 DEF OrderInv

\* The steps of the order stage.
LEMMA PassOrder == OrderInv /\ Pass => OrderInv'
<1>. SUFFICES ASSUME OrderInv, Pass PROVE OrderInv'
  OBVIOUS
<1>1. /\ sent \in Seq(Message) /\ ordered \in Seq(Message) /\ run \in Seq(Message)
      /\ calls \in Seq(Call) /\ toolIndex \in Nat /\ error \in {"none", "effort", "message"}
      /\ next \in 1..(Len(sent) + 1) /\ Len(sent) \in Nat /\ Len(ordered) \in Nat
      /\ Arranged(sent, ordered) /\ \A k \in 1..Len(sent) : sent[k].at = k
  BY DEF OrderInv, OrderTypeOK
<1>2. /\ stage = "order" /\ stage' = stage /\ run = <<>> /\ run' = <<>> /\ Reading
      /\ next <= Len(sent) /\ sent[next].role # "tool"
      /\ ordered' = Append(ordered, sent[next]) /\ next' = next + 1
      /\ calls' = IF sent[next].role = "assistant" THEN sent[next].calls ELSE calls
      /\ sent' = sent /\ toolIndex' = toolIndex /\ error' = error
  BY DEF OrderInv, Pass, InRun, inputs
<1>3. next = Len(ordered) + 1 /\ next \in 1..Len(sent) /\ sent[next] \in Message
      /\ next + 1 \in 1..(Len(sent) + 1)
  <2>1. Len(ordered) + 0 = next - 1
    BY <1>2 DEF Reading
  <2>. QED
    BY <1>1, <1>2, <2>1
<1>4. ordered' \in Seq(Message) /\ Len(ordered') = next
  BY <1>1, <1>2, <1>3
<1>5. calls' = CallsBefore(sent, next + 1)
  <2>1. CallsBefore(sent, next + 1) =
            IF sent[next].role = "assistant" THEN sent[next].calls ELSE CallsBefore(sent, next)
    BY <1>1, <1>3, CallsAfter
  <2>2. calls = CallsBefore(sent, next)
    BY <1>2, <1>3 DEF Reading
  <2>. QED
    BY <1>2, <2>1, <2>2
<1>6. calls' \in Seq(Call)
  BY <1>1, <1>2, <1>3 DEF Message
<1>7. OrderTypeOK'
  BY <1>1, <1>2, <1>3, <1>4, <1>6 DEF OrderTypeOK
<1>8. Arranged(sent', ordered')
  <2>1. Len(ordered) < Len(sent)
    BY <1>1, <1>3
  <2>. QED
    BY <1>1, <1>2, <1>3, <2>1, PassArranges
<1>9. Reading'
  <2>1. Len(ordered') + Len(run') = next' - 1
    BY <1>1, <1>2, <1>3, <1>4
  <2>. QED
    BY <1>2, <1>4, <1>5, <2>1 DEF Reading
<1>. QED
  BY <1>1, <1>2, <1>3, <1>4, <1>7, <1>8, <1>9 DEF OrderInv

LEMMA CollectOrder == OrderInv /\ Collect => OrderInv'
<1>. SUFFICES ASSUME OrderInv, Collect PROVE OrderInv'
  OBVIOUS
<1>1. /\ sent \in Seq(Message) /\ ordered \in Seq(Message) /\ run \in Seq(Message)
      /\ calls \in Seq(Call) /\ toolIndex \in Nat /\ error \in {"none", "effort", "message"}
      /\ next \in 1..(Len(sent) + 1) /\ Len(sent) \in Nat /\ Len(ordered) \in Nat
      /\ Len(run) \in Nat /\ Len(ordered) <= Len(sent)
      /\ Arranged(sent, ordered) /\ \A k \in 1..Len(sent) : sent[k].at = k
  BY DEF OrderInv, OrderTypeOK
<1>2. /\ stage = "order" /\ stage' = stage /\ Reading
      /\ next <= Len(sent) /\ sent[next].role = "tool" /\ InRun
      /\ run' = Append(run, sent[next]) /\ next' = next + 1
      /\ ordered' = ordered /\ calls' = calls
      /\ sent' = sent /\ toolIndex' = toolIndex /\ error' = error
  BY DEF OrderInv, Collect, InRun, inputs
<1>3. /\ next \in 1..Len(sent) /\ sent[next] \in Message
      /\ next + 1 \in 1..(Len(sent) + 1)
  BY <1>1, <1>2
<1>4. /\ Len(ordered) + Len(run) = next - 1
      /\ \A k \in 1..Len(run) : run[k] = sent[Len(ordered) + k] /\ run[k].role = "tool"
      /\ calls = CallsBefore(sent, Len(ordered) + 1)
      /\ Len(ordered) = 0 \/ sent[Len(ordered)].role # "tool"
  BY <1>2 DEF Reading
<1>5. run' \in Seq(Message) /\ Len(run') = Len(run) + 1 /\ run'[Len(run) + 1] = sent[next]
      /\ \A k \in 1..Len(run) : run'[k] = run[k]
  BY <1>1, <1>2, <1>3
<1>6. ASSUME NEW k \in 1..Len(run')
      PROVE  run'[k] = sent[Len(ordered) + k] /\ run'[k].role = "tool"
  <2>1. k \in 1..Len(run) \/ (k = Len(run) + 1 /\ Len(ordered) + k = next)
    <3>. DEFINE x == Len(ordered)
                y == Len(run)
    <3>1. x \in Nat /\ y \in Nat /\ k \in 1..(y + 1) /\ x + y = next - 1 /\ next \in Int
      BY <1>1, <1>4, <1>5
    <3>. HIDE DEF x, y
    <3>2. k \in 1..y \/ (k = y + 1 /\ x + k = next)
      BY <3>1
    <3>. QED
      BY <3>2 DEF x, y
  <2>. QED
    BY <1>2, <1>4, <1>5, <2>1
<1>7. OrderTypeOK'
  BY <1>1, <1>2, <1>3, <1>5 DEF OrderTypeOK
<1>8. Len(ordered) + Len(run') = next' - 1
  BY <1>1, <1>2, <1>4, <1>5
<1>9. Reading'
  BY <1>2, <1>4, <1>6, <1>8 DEF Reading
<1>. QED
  BY <1>1, <1>2, <1>7, <1>9 DEF OrderInv

LEMMA EndRunOrder == OrderInv /\ EndRun => OrderInv'
<1>. SUFFICES ASSUME OrderInv, EndRun PROVE OrderInv'
  OBVIOUS
<1>. DEFINE n == Len(ordered)
            m == Len(run)
<1>1. /\ sent \in Seq(Message) /\ ordered \in Seq(Message) /\ run \in Seq(Message)
      /\ calls \in Seq(Call) /\ toolIndex \in Nat /\ error \in {"none", "effort", "message"}
      /\ next \in 1..(Len(sent) + 1) /\ Len(sent) \in Nat /\ n \in Nat /\ m \in Nat
      /\ Arranged(sent, ordered) /\ \A k \in 1..Len(sent) : sent[k].at = k
  BY DEF OrderInv, OrderTypeOK
<1>2. /\ stage = "order" /\ stage' = stage /\ Reading
      /\ run # <<>> /\ run' = <<>> /\ ~InRun
      /\ ordered' = ordered \o Ordered(run, calls) /\ next' = next
      /\ calls' = calls /\ sent' = sent /\ toolIndex' = toolIndex /\ error' = error
  BY DEF OrderInv, EndRun, inputs
<1>3. /\ n + m = next - 1
      /\ \A k \in 1..m : run[k] = sent[n + k] /\ run[k].role = "tool"
      /\ calls = CallsBefore(sent, n + 1)
      /\ n = 0 \/ sent[n].role # "tool"
  BY <1>2 DEF Reading
<1>4. m # 0 /\ n + m \in 0..Len(sent) /\ n \in 0..Len(sent) /\ (n + m) + 1 = next
      /\ n < n + m
  <2>1. m # 0
    BY <1>1, <1>2
  <2>. QED
    BY <1>1, <1>3, <2>1
<1>5. \A k \in (n + 1)..(n + m) : sent[k].role = "tool"
  <2>. SUFFICES ASSUME NEW k \in (n + 1)..(n + m) PROVE sent[k].role = "tool"
    OBVIOUS
  <2>1. k - n \in 1..m /\ n + (k - n) = k
    BY <1>1
  <2>. HIDE DEF n, m
  <2>. QED
    BY <1>3, <2>1
<1>6. IsRun(sent, n, n + m)
  <2>1. n + m # Len(sent) => sent[(n + m) + 1].role # "tool"
    <3>. SUFFICES ASSUME n + m # Len(sent) PROVE sent[next].role # "tool"
      BY <1>4
    <3>1. next <= Len(sent)
      BY <1>1, <1>4
    <3>. QED
      BY <1>2, <3>1 DEF InRun
  <2>. HIDE DEF n, m
  <2>. QED
    BY <1>3, <1>4, <1>5, <2>1 DEF IsRun
<1>7. Arranged(sent', ordered')
  <2>1. \A k \in 1..m : run[k] = sent[n + k]
    BY <1>3
  <2>2. Arranged(sent, ordered \o Ordered(run, CallsBefore(sent, n + 1)))
    BY <1>1, <1>6, <2>1, EndRunArranges
  <2>. QED
    BY <1>2, <1>3, <2>2
<1>8. ordered' \in Seq(Message) /\ Len(ordered') = n + m
  <2>. DEFINE w == Ordered(run, calls)
  <2>1. w \in Seq(Message) /\ Len(w) = m
    BY <1>1, OrderedArranges
  <2>. HIDE DEF w, m
  <2>2. (ordered \o w) \in Seq(Message) /\ Len(ordered \o w) = Len(ordered) + Len(w)
    BY <1>1, <2>1, ConcatProperties
  <2>. QED
    BY <1>2, <2>1, <2>2 DEF w, n
<1>9. calls' = CallsBefore(sent, (n + m) + 1)
  <2>1. n + m \in n..Len(sent) /\ (n + m) + 1 \in (n + 1)..((n + m) + 1)
    BY <1>1, <1>4
  <2>. HIDE DEF n, m
  <2>2. CallsBefore(sent, (n + m) + 1) = CallsBefore(sent, n + 1)
    BY <1>1, <1>4, <1>5, <2>1, CallsBeforeRun
  <2>. QED
    BY <1>2, <1>3, <2>2
<1>10. OrderTypeOK'
  BY <1>1, <1>2, <1>8 DEF OrderTypeOK
<1>11. Reading'
  <2>1. ~InRun'
    BY <1>2 DEF InRun
  <2>. HIDE DEF n, m
  <2>2. Len(run') = 0 /\ Len(ordered') + Len(run') = next' - 1
    <3>1. Len(run') = 0
      BY <1>2
    <3>2. (n + m) + 0 = next - 1
      BY <1>1, <1>3
    <3>. QED
      BY <1>2, <1>8, <3>1, <3>2
  <2>3. calls' = CallsBefore(sent', Len(ordered') + 1)
    BY <1>2, <1>8, <1>9
  <2>. QED
    BY <1>2, <2>1, <2>2, <2>3 DEF Reading
<1>12. Len(ordered') <= Len(sent')
  BY <1>1, <1>2, <1>4, <1>8
<1>. QED
  BY <1>1, <1>2, <1>7, <1>10, <1>11, <1>12 DEF OrderInv

LEMMA EndOrderOrder == OrderInv /\ EndOrder => OrderInv'
<1>. SUFFICES ASSUME OrderInv, EndOrder PROVE OrderInv'
  OBVIOUS
<1>1. /\ sent \in Seq(Message) /\ ordered \in Seq(Message) /\ run \in Seq(Message)
      /\ toolIndex \in Nat /\ error \in {"none", "effort", "message"}
      /\ next \in 1..(Len(sent) + 1) /\ Len(sent) \in Nat /\ Len(ordered) \in Nat
      /\ Arranged(sent, ordered) /\ \A k \in 1..Len(sent) : sent[k].at = k
  BY DEF OrderInv, OrderTypeOK
<1>2. /\ stage = "order" /\ stage' = "begin" /\ run = <<>> /\ run' = run
      /\ next > Len(sent) /\ next' = 1 /\ calls' = <<>> /\ Reading
      /\ ordered' = ordered /\ sent' = sent /\ toolIndex' = toolIndex /\ error' = error
  BY DEF OrderInv, EndOrder, inputs
<1>3. Len(ordered) = Len(sent)
  <2>1. Len(ordered) + 0 = next - 1
    BY <1>2 DEF Reading
  <2>. QED
    BY <1>1, <1>2, <2>1
<1>4. OrderTypeOK'
  <2>1. 1 \in 1..(Len(sent) + 1)
    BY <1>1
  <2>. QED
    BY <1>1, <1>2, <2>1 DEF OrderTypeOK
<1>. QED
  BY <1>1, <1>2, <1>3, <1>4 DEF OrderInv

\* The steps after it.
LEMMA RestOrder ==
    ASSUME OrderInv, stage # "order", stage' \in {"render", "encode", "done"},
           sent' = sent, ordered' = ordered, run' = run, OrderTypeOK'
    PROVE  OrderInv'
  BY DEF OrderInv

LEMMA RenderOrder == OrderInv /\ Render => OrderInv'
<1>. SUFFICES ASSUME OrderInv, Render PROVE OrderInv'
  OBVIOUS
<1>1. /\ sent \in Seq(Message) /\ ordered \in Seq(Message) /\ run \in Seq(Message)
      /\ calls \in Seq(Call) /\ toolIndex \in Nat /\ error \in {"none", "effort", "message"}
      /\ next \in 1..(Len(sent) + 1) /\ Len(sent) \in Nat /\ Len(ordered) <= Len(sent)
  BY DEF OrderInv, OrderTypeOK
<1>2. /\ stage = "render" /\ stage' = stage /\ next <= Len(ordered) /\ next' = next + 1
      /\ calls' = IF ordered[next].role = "assistant" THEN ordered[next].calls ELSE calls
      /\ toolIndex' \in {0, toolIndex, toolIndex + 1}
      /\ ordered' = ordered /\ sent' = sent /\ run' = run /\ error' = error
  BY DEF Render, inputs
<1>3. next \in 1..Len(ordered) /\ ordered[next] \in Message /\ next + 1 \in 1..(Len(sent) + 1)
  <2>1. Len(ordered) \in Nat
    BY <1>1
  <2>2. next \in 1..Len(ordered)
    BY <1>1, <1>2, <2>1
  <2>. QED
    BY <1>1, <1>2, <2>1, <2>2
<1>4. calls' \in Seq(Call) /\ toolIndex' \in Nat
  <2>1. ordered[next].calls \in Seq(Call)
    BY <1>3 DEF Message
  <2>2. toolIndex + 1 \in Nat
    BY <1>1
  <2>. QED
    BY <1>1, <1>2, <2>1, <2>2
<1>5. OrderTypeOK'
  BY <1>1, <1>2, <1>3, <1>4 DEF OrderTypeOK
<1>. QED
  BY <1>2, <1>5, RestOrder

LEMMA OrderStep == OrderInv /\ [K3Next]_k3Vars => OrderInv'
<1>. SUFFICES ASSUME OrderInv, [K3Next]_k3Vars PROVE OrderInv'
  OBVIOUS
<1>1. CASE Pass
  BY <1>1, PassOrder
<1>2. CASE Collect
  BY <1>2, CollectOrder
<1>3. CASE EndRun
  BY <1>3, EndRunOrder
<1>4. CASE EndOrder
  BY <1>4, EndOrderOrder
<1>5. CASE Begin
  <2>1. OrderTypeOK'
    BY <1>5 DEF OrderInv, OrderTypeOK, Begin, inputs
  <2>. QED
    BY <1>5, <2>1, RestOrder DEF Begin, inputs
<1>6. CASE RefuseEffort
  <2>1. OrderTypeOK'
    BY <1>6 DEF OrderInv, OrderTypeOK, RefuseEffort, inputs
  <2>. QED
    BY <1>6, <2>1, RestOrder DEF RefuseEffort, inputs
<1>7. CASE Render
  BY <1>7, RenderOrder
<1>8. CASE Raise
  <2>1. OrderTypeOK'
    BY <1>8 DEF OrderInv, OrderTypeOK, Raise, inputs
  <2>. QED
    BY <1>8, <2>1, RestOrder DEF Raise, inputs
<1>9. CASE EndRender
  <2>1. OrderTypeOK'
    BY <1>9 DEF OrderInv, OrderTypeOK, EndRender, inputs
  <2>. QED
    BY <1>9, <2>1, RestOrder DEF EndRender, inputs
<1>10. CASE Encode
  <2>1. OrderTypeOK'
    BY <1>10 DEF OrderInv, OrderTypeOK, Encode, inputs
  <2>. QED
    BY <1>10, <2>1, RestOrder DEF Encode, inputs
<1>11. CASE UNCHANGED k3Vars
  BY <1>11 DEF k3Vars, inputs, OrderInv, OrderTypeOK, Reading, InRun
<1>. QED
  BY <1>1, <1>2, <1>3, <1>4, <1>5, <1>6, <1>7, <1>8, <1>9, <1>10, <1>11 DEF K3Next

\* In every state the messages put out so far are arranged: runs of results are complete
\* and, if they answer calls, in the order of the calls (encoding_k3.py:389-468).
THEOREM OrderHolds == K3Spec => []OrderInv
<1>. QED
  BY OrderInit, OrderStep, PTL DEF K3Spec

-----------------------------------------------------------------------------
(***************************************************************************)
(* What the messages put out have in common with the messages of the       *)
(* request: the roles, hence the runs and the calls before a message       *)
(***************************************************************************)
LEMMA ArrangedRoles ==
    ASSUME NEW s \in Seq(Message), NEW o \in Seq(Message), Len(o) = Len(s), Arranged(s, o)
    PROVE  \A p \in 1..Len(s) : o[p].role = s[p].role
<1>. SUFFICES ASSUME NEW p \in 1..Len(s) PROVE o[p].role = s[p].role
  OBVIOUS
<1>1. CASE s[p].role # "tool"
  BY <1>1 DEF Arranged
<1>2. CASE s[p].role = "tool"
  <2>1. PICK b \in 0..Len(s), e \in 0..Len(s) : IsRun(s, b, e) /\ p \in (b + 1)..e
    BY <1>2, RunExists
  <2>2. RunFits(s, o, b, e)
    BY <2>1 DEF Arranged
  <2>3. o[p].at \in (b + 1)..e /\ [o[p] EXCEPT !.name = s[o[p].at].name] = s[o[p].at]
    BY <2>1, <2>2 DEF RunFits
  <2>4. o[p] \in Message
    OBVIOUS
  <2>5. o[p].role = s[o[p].at].role
    BY <2>3, <2>4 DEF Message
  <2>. QED
    BY <1>2, <2>1, <2>3, <2>5 DEF IsRun
<1>. QED
  BY <1>1, <1>2

\* Arranging moves no run: what is a run before is one behind.
LEMMA ArrangedRuns ==
    ASSUME NEW s \in Seq(Message), NEW o \in Seq(Message), Len(o) = Len(s), Arranged(s, o)
    PROVE  /\ \A p, k \in 1..Len(s) : SameRun(o, p, k) <=> SameRun(s, p, k)
           /\ \A b, e \in 0..Len(s) : IsRun(o, b, e) <=> IsRun(s, b, e)
<1>1. \A p \in 1..Len(s) : o[p].role = s[p].role
  BY ArrangedRoles
<1>2. ASSUME NEW p \in 1..Len(s), NEW k \in 1..Len(s) PROVE SameRun(o, p, k) <=> SameRun(s, p, k)
  <2>1. /\ \A l \in p..k : l \in 1..Len(s)
        /\ \A l \in k..p : l \in 1..Len(s)
    OBVIOUS
  <2>. QED
    BY <1>1, <2>1 DEF SameRun, OneRun
<1>3. ASSUME NEW b \in 0..Len(s), NEW e \in 0..Len(s) PROVE IsRun(o, b, e) <=> IsRun(s, b, e)
  <2>1. /\ \A l \in (b + 1)..e : l \in 1..Len(s)
        /\ b # 0 => b \in 1..Len(s)
        /\ e # Len(s) => e + 1 \in 1..Len(s)
    OBVIOUS
  <2>. QED
    BY <1>1, <2>1 DEF IsRun
<1>. QED
  BY <1>2, <1>3

\* Arranging leaves the calls before every message.
LEMMA ArrangedCalls ==
    ASSUME NEW s \in Seq(Message), NEW o \in Seq(Message), Len(o) = Len(s), Arranged(s, o)
    PROVE  \A p \in 1..(Len(s) + 1) : CallsBefore(o, p) = CallsBefore(s, p)
<1>. SUFFICES ASSUME NEW p \in 1..(Len(s) + 1) PROVE CallsBefore(o, p) = CallsBefore(s, p)
  OBVIOUS
<1>. DEFINE A == Assistants(s, p)
<1>1. p - 1 \in Nat /\ \A k \in 1..(p - 1) : k \in 1..Len(s)
  OBVIOUS
<1>2. \A k \in 1..Len(s) : o[k].role = s[k].role
  BY ArrangedRoles
<1>3. Assistants(o, p) = A
  BY <1>1, <1>2 DEF Assistants
<1>4. ASSUME A # {} PROVE o[Latest(A)] = s[Latest(A)]
  <2>1. A \in SUBSET (1..(p - 1))
    BY DEF Assistants
  <2>2. \E k \in A : \A l \in A : l <= k
    <3>. HIDE DEF A
    <3>. QED
      BY <1>1, <1>4, <2>1, LastOfNumbers
  <2>3. Latest(A) \in A
    <3>. HIDE DEF A
    <3>. QED
      BY <2>2 DEF Latest
  <2>4. Latest(A) \in 1..Len(s) /\ s[Latest(A)].role = "assistant"
    BY <1>1, <2>3 DEF Assistants
  <2>. HIDE DEF A
  <2>. QED
    BY <2>4 DEF Arranged
<1>5. /\ CallsBefore(o, p) = IF A = {} THEN <<>> ELSE o[Latest(A)].calls
      /\ CallsBefore(s, p) = IF A = {} THEN <<>> ELSE s[Latest(A)].calls
  <2>. HIDE DEF A
  <2>1. CallsBefore(o, p) = IF Assistants(o, p) = {} THEN <<>> ELSE o[Latest(Assistants(o, p))].calls
    BY CallsBeforeIs
  <2>2. CallsBefore(s, p) = IF Assistants(s, p) = {} THEN <<>> ELSE s[Latest(Assistants(s, p))].calls
    BY CallsBeforeIs
  <2>. QED
    BY <1>3, <2>1, <2>2 DEF A
<1>. HIDE DEF A
<1>. QED
  BY <1>4, <1>5

\* The calls that the results of a run have are those they had in the request.
KeepCalls(s, o, b, e) ==
    /\ \A p \in (b + 1)..e : /\ o[p].at \in (b + 1)..e /\ o[p].at \in 1..Len(s)
                             /\ p \in 1..Len(s)
                             /\ o[p].call = s[o[p].at].call
    /\ \A k \in (b + 1)..e : \E p \in (b + 1)..e : o[p].call = s[k].call

\* What a run that fits keeps of the calls its results answer.
LEMMA ArrangedResults ==
    ASSUME NEW s \in Seq(Message), NEW o \in Seq(Message), Len(o) = Len(s),
           NEW b, NEW e, IsRun(s, b, e), RunFits(s, o, b, e)
    PROVE  KeepCalls(s, o, b, e)
<1>1. \A p \in (b + 1)..e : p \in 1..Len(s)
  BY DEF IsRun
<1>2. ASSUME NEW p \in (b + 1)..e
      PROVE  o[p].at \in (b + 1)..e /\ o[p].call = s[o[p].at].call
  <2>1. o[p].at \in (b + 1)..e /\ [o[p] EXCEPT !.name = s[o[p].at].name] = s[o[p].at]
    BY DEF RunFits
  <2>2. o[p] \in Message
    BY <1>1
  <2>. QED
    BY <2>1, <2>2 DEF Message
<1>3. ASSUME NEW k \in (b + 1)..e PROVE \E p \in (b + 1)..e : o[p].call = s[k].call
  <2>1. PICK p \in (b + 1)..e : o[p].at = k
    BY DEF RunFits
  <2>. QED
    BY <1>2, <2>1
<1>. QED
  BY <1>1, <1>2, <1>3 DEF KeepCalls

\* What becomes of one message of the request.
LEMMA ArrangedOnce ==
    ASSUME NEW s \in Seq(Message), NEW o \in Seq(Message), Len(o) = Len(s), Arranged(s, o),
           NEW n \in 1..Len(s)
    PROVE  /\ o[n].role # "tool" => o[n] = s[n]
           /\ \E k \in 1..Len(s) : /\ k = n \/ SameRun(s, n, k)
                                   /\ [o[k] EXCEPT !.name = s[n].name] = s[n]
<1>1. o[n].role = s[n].role
  BY ArrangedRoles
<1>2. CASE s[n].role # "tool"
  <2>1. o[n] = s[n] /\ s[n] \in Message
    BY <1>2 DEF Arranged
  <2>2. [o[n] EXCEPT !.name = s[n].name] = s[n]
    BY <2>1 DEF Message
  <2>. QED
    BY <2>1, <2>2
<1>3. CASE s[n].role = "tool"
  <2>1. PICK b \in 0..Len(s), e \in 0..Len(s) : IsRun(s, b, e) /\ n \in (b + 1)..e
    BY <1>3, RunExists
  <2>2. RunFits(s, o, b, e)
    BY <2>1 DEF Arranged
  <2>3. PICK k \in (b + 1)..e : o[k].at = n
    BY <2>1, <2>2 DEF RunFits
  <2>4. [o[k] EXCEPT !.name = s[n].name] = s[n]
    BY <2>2, <2>3 DEF RunFits
  <2>5. k \in 1..Len(s)
    BY <2>1, <2>2, ArrangedResults DEF KeepCalls
  <2>6. SameRun(s, n, k)
    BY <2>1, <2>3, <2>5, RunIs
  <2>. QED
    BY <1>1, <1>3, <2>4, <2>5, <2>6
<1>. QED
  BY <1>2, <1>3

\* Ordering results loses no message, doubles none and moves none out of its run
\* (encoding_k3.py:389-468).
THEOREM EveryMessageIsThereOnce == K3Spec => []EveryMessageOnce
<1>1. OrderInv => EveryMessageOnce
  <2>. SUFFICES ASSUME OrderInv, stage # "order" PROVE EveryMessageOnce
    BY DEF EveryMessageOnce, IsOrdered
  <2>1. /\ sent \in Seq(Message) /\ ordered \in Seq(Message) /\ Len(ordered) = Len(sent)
        /\ Arranged(sent, ordered)
    BY DEF OrderInv, OrderTypeOK
  <2>2. \A n \in 1..Len(sent) :
            /\ ordered[n].role # "tool" => ordered[n] = sent[n]
            /\ \E k \in 1..Len(sent) : /\ k = n \/ SameRun(sent, n, k)
                                       /\ [ordered[k] EXCEPT !.name = sent[n].name] = sent[n]
    BY <2>1, ArrangedOnce
  <2>. QED
    BY <2>1, <2>2 DEF EveryMessageOnce
<1>. QED
  BY <1>1, OrderHolds, PTL

\* What the run of a result is said to be.
Follows(s, o, n, cs) ==
    IF \A k \in 1..Len(s) : SameRun(o, n, k) => o[k].call \in Ids(cs)
    THEN /\ \E k \in 1..Len(cs) : /\ cs[k].id = o[n].call
                                  /\ cs[k].name \in {o[n].name, Nothing}
         /\ \A k \in (n + 1)..Len(s) : SameRun(o, n, k) =>
               \E p, q \in 1..Len(cs) :
                   /\ p <= q
                   /\ cs[p].id = o[n].call /\ cs[q].id = o[k].call
                   /\ \A l \in 1..(q - 1) : cs[l].id # o[k].call
    ELSE o[n] = s[n]

\* In an arranged conversation results follow the calls, as the property says it.
LEMMA ArrangedFollow ==
    ASSUME NEW s \in Seq(Message), NEW o \in Seq(Message), Len(o) = Len(s), Arranged(s, o),
           NEW n \in 1..Len(s), o[n].role = "tool",
           NEW cs, cs = CallsBefore(o, n)
    PROVE  Follows(s, o, n, cs)
<1>1. s[n].role = "tool"
  BY ArrangedRoles
<1>2. PICK b \in 0..Len(s), e \in 0..Len(s) : IsRun(s, b, e) /\ n \in (b + 1)..e
  BY <1>1, RunExists
<1>3. RunFits(s, o, b, e)
  BY <1>2 DEF Arranged
<1>4. \A k \in 1..Len(s) : SameRun(o, n, k) <=> k \in (b + 1)..e
  <2>. SUFFICES ASSUME NEW k \in 1..Len(s) PROVE SameRun(o, n, k) <=> k \in (b + 1)..e
    OBVIOUS
  <2>1. SameRun(s, n, k) <=> k \in (b + 1)..e
    BY <1>2, RunIs
  <2>2. SameRun(o, n, k) <=> SameRun(s, n, k)
    BY ArrangedRuns
  <2>. QED
    BY <2>1, <2>2
<1>5. cs = CallsBefore(s, b + 1) /\ cs \in Seq(Call)
  <2>1. n \in 1..(Len(s) + 1) /\ n \in (b + 1)..(e + 1) /\ b + 1 \in 1..(Len(s) + 1) /\ e \in b..Len(s)
    BY <1>2 DEF IsRun
  <2>2. CallsBefore(o, n) = CallsBefore(s, n)
    BY <2>1, ArrangedCalls
  <2>3. CallsBefore(s, n) = CallsBefore(s, b + 1)
    BY <1>2, <2>1, CallsBeforeRun DEF IsRun
  <2>4. CallsBefore(s, b + 1) \in Seq(Call)
    BY <2>1, CallsBeforeType
  <2>. QED
    BY <2>2, <2>3, <2>4
<1>6. /\ \A p \in (b + 1)..e : /\ o[p].at \in (b + 1)..e /\ o[p].at \in 1..Len(s) /\ p \in 1..Len(s)
                               /\ o[p].call = s[o[p].at].call
      /\ \A k \in (b + 1)..e : \E p \in (b + 1)..e : o[p].call = s[k].call
  <2>1. KeepCalls(s, o, b, e)
    BY <1>2, <1>3, ArrangedResults
  <2>. QED
    BY <2>1 DEF KeepCalls
<1>7. (\A k \in 1..Len(s) : SameRun(o, n, k) => o[k].call \in Ids(cs)) <=> Answering(s, b, e)
  <2>1. Answering(s, b, e) <=> \A k \in (b + 1)..e : s[k].call \in Ids(cs)
    BY <1>5 DEF Answering
  <2>2. (\A k \in 1..Len(s) : SameRun(o, n, k) => o[k].call \in Ids(cs))
            <=> \A k \in (b + 1)..e : o[k].call \in Ids(cs)
    BY <1>4, <1>6
  <2>3. (\A k \in (b + 1)..e : o[k].call \in Ids(cs)) <=> \A k \in (b + 1)..e : s[k].call \in Ids(cs)
    BY <1>6
  <2>. QED
    BY <2>1, <2>2, <2>3
<1>8. CASE ~Answering(s, b, e)
  <2>1. o[n] = s[n]
    BY <1>2, <1>3, <1>8 DEF RunFits
  <2>. QED
    BY <1>7, <1>8, <2>1 DEF Follows
<1>9. CASE Answering(s, b, e)
  <2>1. \A k \in (b + 1)..e : o[k].call \in Ids(cs) /\ s[k].call \in Ids(cs)
    BY <1>5, <1>6, <1>9 DEF Answering
  <2>2. \A p \in (b + 1)..e : o[p] = Named(s[o[p].at], cs)
    BY <1>3, <1>5, <1>9 DEF RunFits
  <2>3. \A k \in (b + 1)..e : /\ Position(o[k].call, cs) \in 1..Len(cs)
                              /\ cs[Position(o[k].call, cs)].id = o[k].call
                              /\ \A l \in 1..(Position(o[k].call, cs) - 1) : cs[l].id # o[k].call
    BY <1>5, <2>1, PositionIs
  <2>4. \E k \in 1..Len(cs) : cs[k].id = o[n].call /\ cs[k].name \in {o[n].name, Nothing}
    <3>. DEFINE m == s[o[n].at]
    <3>1. m \in Message /\ m.call \in Ids(cs) /\ o[n] = Named(m, cs) /\ o[n].call = m.call
      <4>1. n \in (b + 1)..e /\ o[n].at \in (b + 1)..e /\ o[n].at \in 1..Len(s)
        BY <1>2, <1>6
      <4>2. s[o[n].at] \in Message
        BY <4>1
      <4>. QED
        BY <1>6, <2>1, <2>2, <4>1, <4>2
    <3>. HIDE DEF m
    <3>2. cs[Position(m.call, cs)].name \in {Named(m, cs).name, Nothing}
      BY <1>5, <3>1, NamedType
    <3>. QED
      BY <1>2, <2>3, <3>1, <3>2
  <2>5. ASSUME NEW k \in (n + 1)..Len(s), SameRun(o, n, k)
        PROVE  \E p, q \in 1..Len(cs) :
                   /\ p <= q
                   /\ cs[p].id = o[n].call /\ cs[q].id = o[k].call
                   /\ \A l \in 1..(q - 1) : cs[l].id # o[k].call
    <3>1. k \in 1..Len(s) /\ n < k
      OBVIOUS
    <3>2. k \in (b + 1)..e
      BY <1>4, <2>5, <3>1
    <3>3. Position(o[n].call, cs) <= Position(o[k].call, cs)
      BY <1>2, <1>3, <1>5, <1>9, <3>1, <3>2 DEF RunFits
    <3>. QED
      BY <1>2, <2>3, <3>2, <3>3
  <2>. QED
    BY <1>7, <1>9, <2>4, <2>5 DEF Follows
<1>. QED
  BY <1>8, <1>9

\* The results of a run that answers nothing but calls of the last assistant come in the
\* order of the calls and bear their names; any other run is left as it was
\* (encoding_k3.py:395-406).
THEOREM ResultsComeInCallOrder == K3Spec => []ResultsFollowCalls
<1>1. OrderInv => ResultsFollowCalls
  <2>. SUFFICES ASSUME OrderInv, stage # "order" PROVE ResultsFollowCalls
    BY DEF ResultsFollowCalls, IsOrdered
  <2>1. /\ sent \in Seq(Message) /\ ordered \in Seq(Message) /\ Len(ordered) = Len(sent)
        /\ Arranged(sent, ordered)
    BY DEF OrderInv, OrderTypeOK
  <2>2. ASSUME NEW n \in 1..Len(ordered), ordered[n].role = "tool"
        PROVE  Follows(sent, ordered, n, CallsBefore(ordered, n))
    BY <2>1, <2>2, ArrangedFollow
  <2>. QED
    BY <2>1, <2>2 DEF ResultsFollowCalls, Follows
<1>. QED
  BY <1>1, OrderHolds, PTL

\* A string of arguments goes out as it is exactly if it does not begin with an object,
\* and otherwise as the pairs of that object (encoding_k3.py:275-303).
THEOREM ArgumentsAreWritten == K3Spec => []ArgumentsAreTheObject
<1>1. OrderInv => ArgumentsAreTheObject
  <2>. SUFFICES ASSUME sent \in Seq(Message), NEW n \in 1..Len(sent),
                       NEW k \in 1..Len(sent[n].calls), NEW s, s = sent[n].calls[k].arguments
                PROVE  /\ IsRaw(s) <=> s # <<>> /\ \A c \in 0..Len(s) : ~IsObject(s, c)
                       /\ ~IsRaw(s) /\ s # <<>> => IsObject(s, ArgumentCount(s))
    BY DEF OrderInv, OrderTypeOK, ArgumentsAreTheObject
  <2>1. sent[n] \in Message
    OBVIOUS
  <2>2. sent[n].calls[k] \in Call
    BY <2>1 DEF Message
  <2>3. s \in Seq(Lexemes)
    BY <2>2 DEF Call
  <2>. QED
    BY <2>3, ArgumentsRead
<1>. QED
  BY <1>1, OrderHolds, PTL

-----------------------------------------------------------------------------
(***************************************************************************)
(* Concatenation and what is counted in it                                 *)
(***************************************************************************)
LEMMA JoinAt ==
    ASSUME NEW S, NEW u \in Seq(S), NEW v \in Seq(S)
    PROVE  /\ u \o v \in Seq(S)
           /\ Len(u) \in Nat /\ Len(v) \in Nat /\ Len(u \o v) = Len(u) + Len(v)
           /\ \A k \in 1..Len(u) : (u \o v)[k] = u[k] /\ k \in 1..Len(u \o v)
           /\ \A k \in 1..Len(v) : (u \o v)[Len(u) + k] = v[k] /\ Len(u) + k \in 1..Len(u \o v)
           /\ \A k \in 1..Len(u \o v) : k \in 1..Len(u) \/ \E l \in 1..Len(v) : k = Len(u) + l
<1>. DEFINE w == u \o v
<1>1. /\ w \in Seq(S) /\ Len(w) = Len(u) + Len(v)
      /\ \A k \in 1..(Len(u) + Len(v)) : w[k] = IF k <= Len(u) THEN u[k] ELSE v[k - Len(u)]
  BY ConcatProperties
<1>2. Len(u) \in Nat /\ Len(v) \in Nat
  OBVIOUS
<1>. HIDE DEF w
<1>3. ASSUME NEW k \in 1..Len(u) PROVE w[k] = u[k] /\ k \in 1..Len(w)
  <2>1. k \in 1..(Len(u) + Len(v)) /\ k <= Len(u)
    BY <1>2
  <2>. QED
    BY <1>1, <2>1
<1>4. ASSUME NEW k \in 1..Len(v) PROVE w[Len(u) + k] = v[k] /\ Len(u) + k \in 1..Len(w)
  <2>1. /\ Len(u) + k \in 1..(Len(u) + Len(v)) /\ ~(Len(u) + k <= Len(u))
        /\ (Len(u) + k) - Len(u) = k
    BY <1>2
  <2>. QED
    BY <1>1, <2>1
<1>5. ASSUME NEW k \in 1..Len(w) PROVE k \in 1..Len(u) \/ \E l \in 1..Len(v) : k = Len(u) + l
  <2>1. CASE k <= Len(u)
    BY <2>1
  <2>2. CASE ~(k <= Len(u))
    <3>1. k - Len(u) \in 1..Len(v) /\ k = Len(u) + (k - Len(u))
      BY <1>1, <1>2, <2>2
    <3>. QED
      BY <3>1
  <2>. QED
    BY <2>1, <2>2
<1>. QED
  BY <1>1, <1>2, <1>3, <1>4, <1>5 DEF w

\* A set of numbers up to n is finite.
LEMMA PartOfNumbers ==
    ASSUME NEW n \in Nat, NEW A \in SUBSET (1..n)
    PROVE  IsFiniteSet(A) /\ Cardinality(A) \in Nat
<1>1. IsFiniteSet(A)
  BY NumbersUpTo, FS_Subset
<1>. QED
  BY <1>1, FS_CardinalityType

\* Where the numbers B of a sequence are when it comes behind another of length n.
Shifted(n, B) == {n + k : k \in B}

\* What is counted in two sequences is counted in both together.
LEMMA CountJoin ==
    ASSUME NEW n \in Nat, NEW A \in SUBSET (1..n), NEW B \in SUBSET (Nat \ {0}), IsFiniteSet(B)
    PROVE  /\ IsFiniteSet(A)
           /\ Cardinality(A) \in Nat /\ Cardinality(B) \in Nat
           /\ IsFiniteSet(A \cup Shifted(n, B))
           /\ Cardinality(A \cup Shifted(n, B)) = Cardinality(A) + Cardinality(B)
<1>. DEFINE D == Shifted(n, B)
            f == [k \in B |-> n + k]
<1>1. IsFiniteSet(A) /\ IsFiniteSet(B)
  BY PartOfNumbers
<1>2. f \in Bijection(B, D)
  <2>. USE DEF Shifted
  <2>1. f \in [B -> D]
    OBVIOUS
  <2>2. \A k, l \in B : f[k] = f[l] => k = l
    OBVIOUS
  <2>3. \A x \in D : \E k \in B : f[k] = x
    OBVIOUS
  <2>. HIDE DEF f, D
  <2>. QED
    BY <2>1, <2>2, <2>3 DEF Bijection, Injection, Surjection, IsInjective
<1>3. IsFiniteSet(D) /\ Cardinality(D) = Cardinality(B)
  <2>. HIDE DEF f, D
  <2>. QED
    BY <1>1, <1>2, FS_Bijection DEF ExistsBijection
<1>4. A \cap D = {}
  BY DEF Shifted
<1>5. Cardinality(A) \in Nat /\ Cardinality(B) \in Nat
  BY <1>1, FS_CardinalityType
<1>. HIDE DEF D
<1>6. /\ IsFiniteSet(A \cup D)
      /\ Cardinality(A \cup D) = Cardinality(A) + Cardinality(D) - Cardinality(A \cap D)
  BY <1>1, <1>3, FS_Union
<1>7. Cardinality(A \cup D) = Cardinality(A) + Cardinality(B)
  <2>1. Cardinality(A \cap D) = 0
    BY <1>4, FS_EmptySet
  <2>. QED
    BY <1>3, <1>5, <1>6, <2>1
<1>. QED
  BY <1>1, <1>5, <1>6, <1>7 DEF D

-----------------------------------------------------------------------------
(***************************************************************************)
(* Segments                                                                *)
(***************************************************************************)
\* What the encoder writes: all that may become special tokens does.
Piece == {x \in Segment : x.special => x.marked}

\* How many elements are open at n.
IsOpen(x) == x.special /\ x.text = "open"
IsClose(x) == x.special /\ x.text = "close"
OpensIn(w, n) == {k \in 1..n : IsOpen(w[k])}
ClosesIn(w, n) == {k \in 1..n : IsClose(w[k])}
Depth(w, n) == Cardinality(OpensIn(w, n)) - Cardinality(ClosesIn(w, n))

\* The element that is closed at n was opened at some place before it, and no other
\* element that was open then has been closed since.
MatchedAt(w, n) ==
    \E k \in 1..(n - 1) :
        /\ IsOpen(w[k]) /\ w[k + 1].text = w[n + 1].text
        /\ Depth(w, k) = Depth(w, n) + 1
        /\ \A l \in k..(n - 1) : Depth(w, l) > Depth(w, n)

\* Controls are followed by their tags, no element is closed before it was opened, and
\* elements are closed in the order they were opened.
Tidy(w) ==
    /\ \A n \in 1..Len(w) : IsOpen(w[n]) \/ IsClose(w[n]) => n + 1 \in 1..Len(w)
    /\ \A n \in 0..Len(w) : Depth(w, n) \in Nat
    /\ \A n \in 1..Len(w) : IsClose(w[n]) => MatchedAt(w, n)

\* All elements that are opened are closed.
Balanced(w) == Tidy(w) /\ Depth(w, Len(w)) = 0

\* The depth is a number, and 0 at first.
LEMMA DepthType ==
    ASSUME NEW w, NEW n \in Nat
    PROVE  /\ Cardinality(OpensIn(w, n)) \in Nat /\ Cardinality(ClosesIn(w, n)) \in Nat
           /\ Depth(w, n) \in Int
           /\ n = 0 => Depth(w, n) = 0
<1>1. OpensIn(w, n) \in SUBSET (1..n) /\ ClosesIn(w, n) \in SUBSET (1..n)
  BY DEF OpensIn, ClosesIn
<1>2. Cardinality(OpensIn(w, n)) \in Nat /\ Cardinality(ClosesIn(w, n)) \in Nat
  BY <1>1, PartOfNumbers
<1>3. n = 0 => Cardinality(OpensIn(w, n)) = 0 /\ Cardinality(ClosesIn(w, n)) = 0
  <2>. SUFFICES ASSUME n = 0 PROVE OpensIn(w, n) = {} /\ ClosesIn(w, n) = {}
    BY FS_EmptySet
  <2>. QED
    BY <1>1
<1>. QED
  BY <1>2, <1>3 DEF Depth

\* A concatenation has the depths of its parts, those of the second on top of the first's.
LEMMA DepthJoin ==
    ASSUME NEW u \in Seq(Segment), NEW v \in Seq(Segment)
    PROVE  /\ \A n \in 0..Len(u) : Depth(u \o v, n) = Depth(u, n)
           /\ \A n \in 0..Len(v) : Depth(u \o v, Len(u) + n) = Depth(u, Len(u)) + Depth(v, n)
<1>. DEFINE w == u \o v
            a == Len(u)
<1>1. /\ a \in Nat /\ Len(v) \in Nat
      /\ \A k \in 1..a : w[k] = u[k]
      /\ \A k \in 1..Len(v) : w[a + k] = v[k]
  BY JoinAt
<1>. HIDE DEF w, a
<1>2. ASSUME NEW n \in 0..Len(u) PROVE Depth(w, n) = Depth(u, n)
  <2>1. \A k \in 1..n : k \in 1..a
    BY <1>1 DEF a
  <2>2. OpensIn(w, n) = OpensIn(u, n) /\ ClosesIn(w, n) = ClosesIn(u, n)
    BY <1>1, <2>1 DEF OpensIn, ClosesIn
  <2>. QED
    BY <2>2 DEF Depth
<1>3. ASSUME NEW n \in 0..Len(v) PROVE Depth(w, a + n) = Depth(u, a) + Depth(v, n)
  <2>1. /\ n \in Nat /\ a + n \in Nat
        /\ \A k \in 1..n : k \in 1..Len(v) /\ a + k \in 1..(a + n)
        /\ \A k \in 1..a : k \in 1..(a + n)
    BY <1>1
  <2>2. ASSUME NEW k \in 1..(a + n) PROVE k \in 1..a \/ \E j \in 1..n : k = a + j
    <3>1. k \in 1..a \/ (k - a \in 1..n /\ k = a + (k - a))
      BY <1>1, <2>1
    <3>. QED
      BY <3>1
  <2>3. OpensIn(w, a + n) = OpensIn(u, a) \cup {a + k : k \in OpensIn(v, n)}
    BY <1>1, <2>1, <2>2 DEF OpensIn
  <2>4. ClosesIn(w, a + n) = ClosesIn(u, a) \cup {a + k : k \in ClosesIn(v, n)}
    BY <1>1, <2>1, <2>2 DEF ClosesIn
  <2>5. /\ OpensIn(u, a) \in SUBSET (1..a) /\ OpensIn(v, n) \in SUBSET (1..n)
        /\ ClosesIn(u, a) \in SUBSET (1..a) /\ ClosesIn(v, n) \in SUBSET (1..n)
    BY DEF OpensIn, ClosesIn
  <2>6. /\ Cardinality(OpensIn(w, a + n)) = Cardinality(OpensIn(u, a)) + Cardinality(OpensIn(v, n))
        /\ Cardinality(OpensIn(u, a)) \in Nat /\ Cardinality(OpensIn(v, n)) \in Nat
    <3>. DEFINE A == OpensIn(u, a)
                B == OpensIn(v, n)
    <3>1. /\ A \in SUBSET (1..a) /\ B \in SUBSET (1..n)
          /\ OpensIn(w, a + n) = A \cup Shifted(a, B)
      BY <2>3, <2>5 DEF Shifted
    <3>. HIDE DEF A, B
    <3>2. /\ Cardinality(OpensIn(w, a + n)) = Cardinality(A) + Cardinality(B)
          /\ Cardinality(A) \in Nat /\ Cardinality(B) \in Nat
      <4>1. a \in Nat /\ A \in SUBSET (1..a) /\ B \in SUBSET (Nat \ {0}) /\ IsFiniteSet(B)
        <5>1. n \in Nat /\ B \in SUBSET (1..n)
          BY <2>1, <3>1
        <5>2. IsFiniteSet(B)
          BY <5>1, NumbersUpTo, FS_Subset
        <5>3. B \in SUBSET (Nat \ {0})
          BY <5>1
        <5>. QED
          BY <1>1, <3>1, <5>2, <5>3
      <4>2. /\ Cardinality(A \cup Shifted(a, B)) = Cardinality(A) + Cardinality(B)
            /\ Cardinality(A) \in Nat /\ Cardinality(B) \in Nat
        BY <4>1, CountJoin
      <4>. QED
        BY <3>1, <4>2
    <3>. QED
      BY <3>2 DEF A, B
  <2>7. /\ Cardinality(ClosesIn(w, a + n)) = Cardinality(ClosesIn(u, a)) + Cardinality(ClosesIn(v, n))
        /\ Cardinality(ClosesIn(u, a)) \in Nat /\ Cardinality(ClosesIn(v, n)) \in Nat
    <3>. DEFINE A == ClosesIn(u, a)
                B == ClosesIn(v, n)
    <3>1. /\ A \in SUBSET (1..a) /\ B \in SUBSET (1..n)
          /\ ClosesIn(w, a + n) = A \cup Shifted(a, B)
      BY <2>4, <2>5 DEF Shifted
    <3>. HIDE DEF A, B
    <3>2. /\ Cardinality(ClosesIn(w, a + n)) = Cardinality(A) + Cardinality(B)
          /\ Cardinality(A) \in Nat /\ Cardinality(B) \in Nat
      <4>1. a \in Nat /\ A \in SUBSET (1..a) /\ B \in SUBSET (Nat \ {0}) /\ IsFiniteSet(B)
        <5>1. n \in Nat /\ B \in SUBSET (1..n)
          BY <2>1, <3>1
        <5>2. IsFiniteSet(B)
          BY <5>1, NumbersUpTo, FS_Subset
        <5>3. B \in SUBSET (Nat \ {0})
          BY <5>1
        <5>. QED
          BY <1>1, <3>1, <5>2, <5>3
      <4>2. /\ Cardinality(A \cup Shifted(a, B)) = Cardinality(A) + Cardinality(B)
            /\ Cardinality(A) \in Nat /\ Cardinality(B) \in Nat
        BY <4>1, CountJoin
      <4>. QED
        BY <3>1, <4>2
    <3>. QED
      BY <3>2 DEF A, B
  <2>. QED
    BY <2>6, <2>7 DEF Depth
<1>. QED
  BY <1>2, <1>3 DEF w, a

\* A match stays one when more is put behind.
LEMMA MatchLeft ==
    ASSUME NEW u \in Seq(Segment), NEW v \in Seq(Segment), NEW n \in 1..Len(u),
           MatchedAt(u, n), n + 1 \in 1..Len(u)
    PROVE  MatchedAt(u \o v, n)
<1>. DEFINE w == u \o v
            a == Len(u)
<1>1. a \in Nat /\ \A k \in 1..a : w[k] = u[k]
  BY JoinAt
<1>2. \A k \in 0..a : Depth(w, k) = Depth(u, k)
  BY DepthJoin
<1>3. n \in 1..a /\ n + 1 \in 1..a /\ MatchedAt(u, n)
  OBVIOUS
<1>. HIDE DEF w, a
<1>4. PICK k \in 1..(n - 1) :
          /\ IsOpen(u[k]) /\ u[k + 1].text = u[n + 1].text
          /\ Depth(u, k) = Depth(u, n) + 1
          /\ \A l \in k..(n - 1) : Depth(u, l) > Depth(u, n)
  BY <1>3 DEF MatchedAt
<1>5. /\ k \in 1..a /\ k + 1 \in 1..a /\ k \in 0..a /\ n \in 0..a
      /\ \A l \in k..(n - 1) : l \in 0..a
  BY <1>1, <1>3
<1>6. w[k] = u[k] /\ w[k + 1] = u[k + 1] /\ w[n + 1] = u[n + 1]
  BY <1>1, <1>3, <1>5
<1>7. Depth(w, k) = Depth(u, k) /\ Depth(w, n) = Depth(u, n)
  BY <1>2, <1>5
<1>8. \A l \in k..(n - 1) : Depth(w, l) > Depth(w, n)
  BY <1>2, <1>4, <1>5, <1>7
<1>9. MatchedAt(w, n)
  BY <1>4, <1>6, <1>7, <1>8 DEF MatchedAt
<1>. QED
  BY <1>9 DEF w

\* Two tidy sequences are a tidy one.
LEMMA TidyJoin ==
    ASSUME NEW u \in Seq(Segment), NEW v \in Seq(Segment), Tidy(u), Tidy(v)
    PROVE  Tidy(u \o v)
<1>. DEFINE w == u \o v
            a == Len(u)
            b == Len(v)
<1>1. /\ a \in Nat /\ b \in Nat /\ Len(w) = a + b
      /\ \A k \in 1..a : w[k] = u[k] /\ k \in 1..Len(w)
      /\ \A k \in 1..b : w[a + k] = v[k] /\ a + k \in 1..Len(w)
      /\ \A n \in 1..Len(w) : n \in 1..a \/ \E j \in 1..b : n = a + j
  <2>1. /\ Len(u) \in Nat /\ Len(v) \in Nat /\ Len(u \o v) = Len(u) + Len(v)
        /\ \A k \in 1..Len(u) : (u \o v)[k] = u[k] /\ k \in 1..Len(u \o v)
        /\ \A k \in 1..Len(v) : (u \o v)[Len(u) + k] = v[k] /\ Len(u) + k \in 1..Len(u \o v)
        /\ \A k \in 1..Len(u \o v) : k \in 1..Len(u) \/ \E l \in 1..Len(v) : k = Len(u) + l
    BY JoinAt
  <2>. QED
    BY <2>1
<1>2. /\ \A n \in 0..a : Depth(w, n) = Depth(u, n)
      /\ \A n \in 0..b : Depth(w, a + n) = Depth(u, a) + Depth(v, n)
  BY DepthJoin
<1>3. /\ \A n \in 1..a : IsOpen(u[n]) \/ IsClose(u[n]) => n + 1 \in 1..a
      /\ \A n \in 0..a : Depth(u, n) \in Nat
      /\ \A n \in 1..a : IsClose(u[n]) => MatchedAt(u, n)
  BY DEF Tidy
<1>4. /\ \A n \in 1..b : IsOpen(v[n]) \/ IsClose(v[n]) => n + 1 \in 1..b
      /\ \A n \in 0..b : Depth(v, n) \in Nat
      /\ \A n \in 1..b : IsClose(v[n]) => MatchedAt(v, n)
  BY DEF Tidy
<1>. HIDE DEF w, a, b
<1>6. ASSUME NEW n \in 1..Len(w), IsOpen(w[n]) \/ IsClose(w[n]) PROVE n + 1 \in 1..Len(w)
  <2>1. CASE n \in 1..a
    BY <1>1, <1>3, <1>6, <2>1
  <2>2. ASSUME NEW j \in 1..b, n = a + j PROVE n + 1 \in 1..Len(w)
    <3>1. j + 1 \in 1..b
      BY <1>1, <1>4, <1>6, <2>2
    <3>2. a + (j + 1) = n + 1
      BY <1>1, <2>2
    <3>. QED
      BY <1>1, <3>1, <3>2
  <2>. QED
    BY <1>1, <2>1, <2>2
<1>7. ASSUME NEW n \in 0..Len(w) PROVE Depth(w, n) \in Nat
  <2>1. CASE n \in 0..a
    BY <1>2, <1>3, <2>1
  <2>2. CASE n \notin 0..a
    <3>1. n - a \in 0..b /\ a + (n - a) = n /\ a \in 0..a
      BY <1>1, <2>2
    <3>2. Depth(w, n) = Depth(u, a) + Depth(v, n - a)
      BY <1>2, <3>1
    <3>. QED
      BY <1>3, <1>4, <3>1, <3>2
  <2>. QED
    BY <2>1, <2>2
<1>8. ASSUME NEW n \in 1..Len(w), IsClose(w[n])
      PROVE  MatchedAt(w, n)
  <2>1. CASE n \in 1..a
    <3>1. IsClose(u[n]) /\ n + 1 \in 1..a
      BY <1>1, <1>3, <1>8, <2>1
    <3>2. MatchedAt(u, n) /\ n + 1 \in 1..Len(u)
      BY <1>3, <2>1, <3>1 DEF a
    <3>. QED
      BY <3>2, MatchLeft DEF w
  <2>2. ASSUME NEW j \in 1..b, n = a + j
        PROVE  MatchedAt(w, n)
    <3>1. IsClose(v[j]) /\ j + 1 \in 1..b
      BY <1>1, <1>4, <1>8, <2>2
    <3>2. PICK k \in 1..(j - 1) :
              /\ IsOpen(v[k]) /\ v[k + 1].text = v[j + 1].text
              /\ Depth(v, k) = Depth(v, j) + 1
              /\ \A l \in k..(j - 1) : Depth(v, l) > Depth(v, j)
      BY <1>4, <3>1 DEF MatchedAt
    <3>3. /\ k \in 1..b /\ k + 1 \in 1..b /\ k \in 0..b /\ j \in 0..b
          /\ a + k \in 1..(n - 1) /\ a + (k + 1) = (a + k) + 1 /\ a + (j + 1) = n + 1
      BY <1>1, <2>2
    <3>4. w[a + k] = v[k] /\ w[(a + k) + 1] = v[k + 1] /\ w[n + 1] = v[j + 1]
      <4>1. w[a + k] = v[k] /\ w[a + (k + 1)] = v[k + 1] /\ w[a + (j + 1)] = v[j + 1]
        BY <1>1, <3>1, <3>3
      <4>2. (a + k) + 1 = a + (k + 1) /\ n + 1 = a + (j + 1)
        BY <1>1, <2>2
      <4>. QED
        BY <4>1, <4>2
    <3>. DEFINE x == Depth(u, a)
    <3>5. /\ Depth(w, a + k) = x + Depth(v, k) /\ Depth(w, n) = x + Depth(v, j)
          /\ x \in Nat /\ Depth(v, k) \in Nat /\ Depth(v, j) \in Nat
      <4>1. a \in 0..a
        BY <1>1
      <4>. QED
        BY <1>2, <1>3, <1>4, <2>2, <3>3, <4>1
    <3>. HIDE DEF x
    <3>6. ASSUME NEW l \in (a + k)..(n - 1) PROVE Depth(w, l) > Depth(w, n)
      <4>1. l - a \in k..(j - 1) /\ l - a \in 0..b /\ a + (l - a) = l
        BY <1>1, <2>2
      <4>2. Depth(w, l) = x + Depth(v, l - a) /\ Depth(v, l - a) \in Nat
        BY <1>2, <1>4, <4>1 DEF x
      <4>3. Depth(v, l - a) > Depth(v, j)
        BY <3>2, <4>1
      <4>. QED
        BY <3>5, <4>2, <4>3
    <3>7. Depth(w, a + k) = Depth(w, n) + 1
      BY <3>2, <3>5
    <3>. QED
      BY <3>2, <3>3, <3>4, <3>6, <3>7 DEF MatchedAt
  <2>. QED
    BY <1>1, <2>1, <2>2
<1>9. Tidy(w)
  BY <1>6, <1>7, <1>8 DEF Tidy
<1>. QED
  BY <1>9 DEF w

-----------------------------------------------------------------------------
(***************************************************************************)
(* Elements                                                                *)
(***************************************************************************)
Unseen == {"message", "end_of_msg"}

\* Words and texts of the client, and elements that are no messages.
Words == {w \in Seq(Piece) : \A n \in 1..Len(w) : ~w[n].special /\ w[n].text \notin Unseen}
Contents == {w \in Seq(Piece) : Balanced(w) /\ \A n \in 1..Len(w) : w[n].text \notin Unseen}

\* Pieces are segments.
LEMMA PiecesAreSegments == Seq(Piece) \subseteq Seq(Segment)
  BY DEF Piece

\* Without controls nothing is open.
LEMMA NoDepth ==
    ASSUME NEW w \in Seq(Piece), \A n \in 1..Len(w) : ~IsOpen(w[n]) /\ ~IsClose(w[n])
    PROVE  Balanced(w) /\ \A n \in 0..Len(w) : Depth(w, n) = 0
<1>1. ASSUME NEW n \in 0..Len(w) PROVE Depth(w, n) = 0
  <2>1. OpensIn(w, n) = {} /\ ClosesIn(w, n) = {}
    <3>1. \A k \in 1..n : k \in 1..Len(w)
      OBVIOUS
    <3>. QED
      BY <3>1 DEF OpensIn, ClosesIn
  <2>2. Cardinality({}) = 0
    BY FS_EmptySet
  <2>. QED
    BY <2>1, <2>2 DEF Depth
<1>2. Len(w) \in 0..Len(w)
  OBVIOUS
<1>. QED
  BY <1>1, <1>2 DEF Balanced, Tidy

\* Two balanced sequences are a balanced one.
LEMMA BalancedJoin ==
    ASSUME NEW u \in Seq(Piece), NEW v \in Seq(Piece), Balanced(u), Balanced(v)
    PROVE  u \o v \in Seq(Piece) /\ Balanced(u \o v)
<1>1. u \in Seq(Segment) /\ v \in Seq(Segment)
  BY PiecesAreSegments
<1>2. Tidy(u \o v)
  BY <1>1, TidyJoin DEF Balanced
<1>3. Len(u \o v) = Len(u) + Len(v) /\ u \o v \in Seq(Piece) /\ Len(v) \in 0..Len(v)
  BY JoinAt
<1>4. Depth(u \o v, Len(u) + Len(v)) = Depth(u, Len(u)) + Depth(v, Len(v))
  BY <1>1, <1>3, DepthJoin
<1>. QED
  BY <1>2, <1>3, <1>4 DEF Balanced

\* Words have no controls, so they are contents; both are closed under concatenation.
LEMMA WordsAreContents == Words \subseteq Contents
<1>. SUFFICES ASSUME NEW w \in Words PROVE w \in Contents
  OBVIOUS
<1>1. w \in Seq(Piece) /\ \A n \in 1..Len(w) : ~w[n].special /\ w[n].text \notin Unseen
  BY DEF Words
<1>2. \A n \in 1..Len(w) : ~IsOpen(w[n]) /\ ~IsClose(w[n])
  BY <1>1 DEF IsOpen, IsClose
<1>3. Balanced(w)
  BY <1>1, <1>2, NoDepth
<1>. QED
  BY <1>1, <1>3 DEF Contents

LEMMA NothingIsWords == <<>> \in Words
  BY DEF Words

LEMMA WordsJoin ==
    ASSUME NEW u \in Words, NEW v \in Words
    PROVE  u \o v \in Words
<1>. DEFINE w == u \o v
<1>1. /\ Len(u) \in Nat /\ Len(v) \in Nat /\ Len(w) = Len(u) + Len(v) /\ w \in Seq(Piece)
      /\ \A k \in 1..Len(u) : w[k] = u[k]
      /\ \A k \in 1..Len(v) : w[Len(u) + k] = v[k]
      /\ \A n \in 1..Len(w) : n \in 1..Len(u) \/ \E j \in 1..Len(v) : n = Len(u) + j
  BY JoinAt DEF Words
<1>. HIDE DEF w
<1>3. \A n \in 1..Len(w) : ~w[n].special /\ w[n].text \notin Unseen
  BY <1>1 DEF Words
<1>. QED
  BY <1>1, <1>3 DEF Words, w

LEMMA ContentsJoin ==
    ASSUME NEW u \in Contents, NEW v \in Contents
    PROVE  u \o v \in Contents
<1>. DEFINE w == u \o v
<1>1. /\ Len(u) \in Nat /\ Len(v) \in Nat /\ Len(w) = Len(u) + Len(v) /\ w \in Seq(Piece)
      /\ \A k \in 1..Len(u) : w[k] = u[k]
      /\ \A k \in 1..Len(v) : w[Len(u) + k] = v[k]
      /\ \A n \in 1..Len(w) : n \in 1..Len(u) \/ \E j \in 1..Len(v) : n = Len(u) + j
  BY JoinAt DEF Contents
<1>3. Balanced(w)
  BY BalancedJoin DEF Contents
<1>. HIDE DEF w
<1>4. \A n \in 1..Len(w) : w[n].text \notin Unseen
  BY <1>1 DEF Contents
<1>. QED
  BY <1>1, <1>3, <1>4 DEF Contents, w

\* What a control token, a word, a text of the client and a tag are.
LEMMA ControlIs ==
    ASSUME NEW token \in Labels
    PROVE  /\ Control(token) \in Piece /\ Control(token).special
           /\ Control(token).text = token
  BY DEF Control, Piece, Segment

LEMMA WordIs ==
    ASSUME NEW word \in Labels
    PROVE  /\ Word(word) \in Piece /\ ~Word(word).special /\ Word(word).text = word
  BY DEF Word, Piece, Segment

LEMMA FreeIs ==
    ASSUME NEW t \in Texts, NEW what \in Labels \ Unseen, NEW place \in Nat
    PROVE  Free(t, what, place) \in Words
<1>1. [special |-> FALSE, marked |-> t = "marker", text |-> what, at |-> place, name |-> Nothing]
          \in Piece
  BY DEF Piece, Segment
<1>. DEFINE x == [special |-> FALSE, marked |-> t = "marker", text |-> what, at |-> place,
                 name |-> Nothing]
<1>2. ~x.special /\ x.text \notin Unseen
  OBVIOUS
<1>3. Free(t, what, place) \in {<<>>, <<x>>}
  BY DEF Free
<1>. HIDE DEF x
<1>4. <<x>> \in Words
  BY <1>1, <1>2 DEF Words, x
<1>. QED
  BY <1>3, <1>4, NothingIsWords

\* An open element has depth one, whatever its attributes are.
IsOpening(w, tag, attributes) ==
    /\ w \in Seq(Piece) /\ Len(w) = Len(attributes) + 3 /\ Len(attributes) \in Nat
    /\ w[1] = Control("open") /\ w[2] = Word(tag)
    /\ \A k \in 1..Len(attributes) : w[2 + k] = attributes[k]
    /\ w[Len(attributes) + 3] = Control("sep")
    /\ Tidy(w)
    /\ \A n \in 1..Len(w) : Depth(w, n) = 1

LEMMA OpenIs ==
    ASSUME NEW tag \in Labels, NEW attributes \in Seq(Piece),
           \A n \in 1..Len(attributes) : ~attributes[n].special
    PROVE  IsOpening(Open(tag, attributes), tag, attributes)
<1>. DEFINE h == <<Control("open"), Word(tag)>>
            c == <<Control("sep")>>
            v == h \o attributes
            w == v \o c
            m == Len(attributes)
<1>1. Control("open") \in Piece /\ Word(tag) \in Piece /\ Control("sep") \in Piece
  BY ControlIs, WordIs DEF Labels
<1>2. /\ h \in Seq(Piece) /\ Len(h) = 2 /\ h[1] = Control("open") /\ h[2] = Word(tag)
      /\ c \in Seq(Piece) /\ Len(c) = 1 /\ c[1] = Control("sep")
      /\ m \in Nat
  BY <1>1
<1>. HIDE DEF h, c
<1>3. /\ v \in Seq(Piece) /\ Len(v) = 2 + m
      /\ \A k \in 1..2 : v[k] = h[k]
      /\ \A k \in 1..m : v[2 + k] = attributes[k]
  <2>1. /\ v \in Seq(Piece) /\ Len(v) = Len(h) + Len(attributes)
        /\ \A k \in 1..Len(h) : v[k] = h[k]
        /\ \A k \in 1..Len(attributes) : v[Len(h) + k] = attributes[k]
    <3>1. h \in Seq(Piece) /\ attributes \in Seq(Piece)
      BY <1>2
    <3>. QED
      BY <3>1, JoinAt
  <2>. HIDE DEF v
  <2>. QED
    BY <1>2, <2>1
<1>. HIDE DEF v
<1>4. /\ w \in Seq(Piece) /\ Len(w) = (2 + m) + 1
      /\ \A k \in 1..(2 + m) : w[k] = v[k]
      /\ \A k \in 1..1 : w[(2 + m) + k] = c[k]
  <2>1. /\ w \in Seq(Piece) /\ Len(w) = Len(v) + Len(c)
        /\ \A k \in 1..Len(v) : w[k] = v[k]
        /\ \A k \in 1..Len(c) : w[Len(v) + k] = c[k]
    <3>1. v \in Seq(Piece) /\ c \in Seq(Piece)
      BY <1>2, <1>3
    <3>. QED
      BY <3>1, JoinAt
  <2>. HIDE DEF w
  <2>. QED
    BY <1>2, <1>3, <2>1
<1>5. w = Open(tag, attributes)
  BY DEF w, v, h, c, Open
<1>. HIDE DEF w, m
<1>6. /\ 1 \in 1..2 /\ 2 \in 1..2 /\ 1 \in 1..(2 + m) /\ 2 \in 1..(2 + m) /\ 1 \in 1..1
      /\ (2 + m) + 1 = m + 3
      /\ \A k \in 1..m : 2 + k \in 1..(2 + m)
  BY <1>2
<1>7. /\ w[1] = Control("open") /\ w[2] = Word(tag) /\ w[m + 3] = Control("sep")
      /\ \A k \in 1..m : w[2 + k] = attributes[k]
  BY <1>2, <1>3, <1>4, <1>6
<1>8. \A n \in 1..Len(w) : /\ n = 1 \/ ~IsOpen(w[n])
                           /\ ~IsClose(w[n])
  <2>. SUFFICES ASSUME NEW n \in 1..Len(w) PROVE (n = 1 \/ ~IsOpen(w[n])) /\ ~IsClose(w[n])
    OBVIOUS
  <2>1. n = 1 \/ n = 2 \/ n = m + 3 \/ (n - 2 \in 1..m /\ n = 2 + (n - 2))
    BY <1>2, <1>4
  <2>2. CASE n = 1
    <3>1. w[n].text = "open"
      BY <1>7, <2>2, ControlIs DEF Labels
    <3>2. ~IsClose(w[n])
      BY <3>1 DEF IsClose
    <3>. QED
      BY <2>2, <3>2
  <2>3. CASE n = 2
    BY <1>7, <2>3, WordIs DEF IsClose, IsOpen
  <2>4. CASE n = m + 3
    <3>1. w[n].text = "sep"
      BY <1>7, <2>4, ControlIs DEF Labels
    <3>. QED
      BY <3>1 DEF IsClose, IsOpen
  <2>5. CASE n - 2 \in 1..m /\ n = 2 + (n - 2)
    <3>1. w[n] = attributes[n - 2] /\ ~attributes[n - 2].special
      BY <1>7, <2>5 DEF m
    <3>. QED
      BY <3>1 DEF IsClose, IsOpen
  <2>. QED
    BY <2>1, <2>2, <2>3, <2>4, <2>5
<1>9. IsOpen(w[1])
  BY <1>7, ControlIs DEF Labels, IsOpen
<1>10. ASSUME NEW n \in 1..Len(w) PROVE Depth(w, n) = 1
  <2>1. 1 \in 1..n /\ \A k \in 1..n : k \in 1..Len(w)
    BY <1>2, <1>4
  <2>2. OpensIn(w, n) = {1} /\ ClosesIn(w, n) = {}
    BY <1>8, <1>9, <2>1 DEF OpensIn, ClosesIn
  <2>3. Cardinality({1}) = 1 /\ Cardinality({}) = 0
    BY FS_EmptySet, FS_Singleton
  <2>. QED
    BY <2>2, <2>3 DEF Depth
<1>11. Tidy(w)
  <2>1. \A n \in 0..Len(w) : n = 0 \/ n \in 1..Len(w)
    BY <1>2, <1>4
  <2>2. Depth(w, 0) = 0
    BY DepthType
  <2>3. 1 + 1 \in 1..Len(w)
    BY <1>2, <1>4
  <2>4. \A n \in 0..Len(w) : Depth(w, n) \in Nat
    BY <1>10, <2>1, <2>2
  <2>. QED
    BY <1>8, <2>3, <2>4 DEF Tidy
<1>12. Len(w) = m + 3
  BY <1>2, <1>4
<1>. QED
  BY <1>2, <1>4, <1>5, <1>7, <1>10, <1>11, <1>12 DEF m, IsOpening

\* The segments of an element, in their order.
IsElement(w, tag, attributes, body) ==
    LET a == Len(attributes) + 3
        c == a + Len(body)
    IN /\ w \in Seq(Piece) /\ Len(w) = c + 3 /\ Len(attributes) \in Nat /\ Len(body) \in Nat
       /\ w[1] = Control("open") /\ w[2] = Word(tag)
       /\ \A k \in 1..Len(attributes) : w[2 + k] = attributes[k]
       /\ w[a] = Control("sep")
       /\ \A k \in 1..Len(body) : w[a + k] = body[k]
       /\ w[c + 1] = Control("close") /\ w[c + 2] = Word(tag) /\ w[c + 3] = Control("sep")
       /\ \A n \in 1..Len(w) : \/ n \in 1..2 \/ n = a \/ n \in (c + 1)..(c + 3)
                               \/ \E k \in 1..Len(attributes) : n = 2 + k
                               \/ \E k \in 1..Len(body) : n = a + k

LEMMA CloseIs ==
    ASSUME NEW tag \in Labels
    PROVE  /\ Close(tag) \in Seq(Piece) /\ Len(Close(tag)) = 3
           /\ Close(tag)[1] = Control("close") /\ Close(tag)[2] = Word(tag)
           /\ Close(tag)[3] = Control("sep")
           /\ \A n \in 1..3 : Depth(Close(tag), n) = 0 - 1
<1>1. Control("close") \in Piece /\ Word(tag) \in Piece /\ Control("sep") \in Piece
  BY ControlIs, WordIs DEF Labels
<1>. DEFINE w == Close(tag)
<1>2. /\ w \in Seq(Piece) /\ Len(w) = 3
      /\ w[1] = Control("close") /\ w[2] = Word(tag) /\ w[3] = Control("sep")
  BY <1>1 DEF Close
<1>. HIDE DEF w
<1>3. w[1].text = "close" /\ w[1].special /\ ~w[2].special /\ w[3].text = "sep"
  BY <1>2, ControlIs, WordIs DEF Labels
<1>4. ASSUME NEW n \in 1..3 PROVE Depth(w, n) = 0 - 1
  <2>1. \A k \in 1..n : k = 1 \/ k = 2 \/ k = 3
    OBVIOUS
  <2>2. 1 \in 1..n
    OBVIOUS
  <2>3. \A k \in {1, 2, 3} : ~IsOpen(w[k]) /\ (IsClose(w[k]) <=> k = 1)
    BY <1>3 DEF IsOpen, IsClose
  <2>4. OpensIn(w, n) = {} /\ ClosesIn(w, n) = {1}
    BY <2>1, <2>2, <2>3 DEF OpensIn, ClosesIn
  <2>5. Cardinality({1}) = 1 /\ Cardinality({}) = 0
    BY FS_EmptySet, FS_Singleton
  <2>. QED
    BY <2>4, <2>5 DEF Depth
<1>. QED
  BY <1>2, <1>4 DEF w

\* An element around a balanced body is balanced, with its own controls around those of the body.
LEMMA ElementIs ==
    ASSUME NEW tag \in Labels, NEW attributes \in Seq(Piece),
           \A n \in 1..Len(attributes) : ~attributes[n].special,
           NEW body \in Seq(Piece), Balanced(body)
    PROVE  /\ IsElement(Element(tag, attributes, body), tag, attributes, body)
           /\ Balanced(Element(tag, attributes, body))
<1>. DEFINE u == Open(tag, attributes)
            x == u \o body
            v == Close(tag)
            w == x \o v
            a == Len(attributes) + 3
            b == Len(body)
            c == a + b
<1>1. /\ u \in Seq(Piece) /\ Len(u) = a /\ Len(attributes) \in Nat
      /\ u[1] = Control("open") /\ u[2] = Word(tag)
      /\ \A k \in 1..Len(attributes) : u[2 + k] = attributes[k]
      /\ u[a] = Control("sep")
      /\ Tidy(u)
      /\ \A n \in 1..Len(u) : Depth(u, n) = 1
  BY OpenIs DEF IsOpening
<1>2. a \in Nat /\ b \in Nat /\ c \in Nat /\ a >= 3 /\ c >= a
  BY <1>1
<1>3. /\ v \in Seq(Piece) /\ Len(v) = 3
      /\ v[1] = Control("close") /\ v[2] = Word(tag) /\ v[3] = Control("sep")
      /\ \A n \in 1..3 : Depth(v, n) = 0 - 1
  BY CloseIs
<1>4. Tidy(body) /\ Depth(body, b) = 0 /\ \A n \in 0..b : Depth(body, n) \in Nat
  BY DEF Balanced, Tidy
<1>5. Element(tag, attributes, body) = w
  BY DEF Element
<1>6. u \in Seq(Segment) /\ body \in Seq(Segment) /\ v \in Seq(Segment)
  BY <1>1, <1>3, PiecesAreSegments
<1>. HIDE DEF u, v, b
<1>7. /\ x \in Seq(Piece) /\ Len(x) = c
      /\ \A k \in 1..a : x[k] = u[k]
      /\ \A k \in 1..b : x[a + k] = body[k]
      /\ \A n \in 1..c : n \in 1..a \/ \E k \in 1..b : n = a + k
  <2>1. /\ x \in Seq(Piece) /\ Len(x) = Len(u) + Len(body)
        /\ \A k \in 1..Len(u) : x[k] = u[k]
        /\ \A k \in 1..Len(body) : x[Len(u) + k] = body[k]
        /\ \A n \in 1..Len(x) : n \in 1..Len(u) \/ \E k \in 1..Len(body) : n = Len(u) + k
    <3>1. u \in Seq(Piece) /\ body \in Seq(Piece)
      BY <1>1
    <3>. QED
      BY <3>1, JoinAt
  <2>. HIDE DEF x
  <2>. QED
    BY <1>1, <2>1 DEF b
<1>8. Tidy(x)
  BY <1>1, <1>4, <1>6, TidyJoin
<1>9. \A n \in 1..c : Depth(x, n) \in Nat /\ Depth(x, n) >= 1 /\ (n = c => Depth(x, n) = 1)
  <2>1. /\ \A n \in 0..a : Depth(x, n) = Depth(u, n)
        /\ \A n \in 0..b : Depth(x, a + n) = Depth(u, a) + Depth(body, n)
    <3>1. /\ \A n \in 0..Len(u) : Depth(x, n) = Depth(u, n)
          /\ \A n \in 0..Len(body) : Depth(x, Len(u) + n) = Depth(u, Len(u)) + Depth(body, n)
      BY <1>6, DepthJoin
    <3>2. Len(u) = a
      BY <1>1
    <3>. HIDE DEF x, a
    <3>. QED
      BY <3>1, <3>2 DEF b
  <2>. HIDE DEF x, a, c
  <2>2. a \in 1..a /\ \A n \in 1..a : Depth(u, n) = 1
    BY <1>1, <1>2 DEF a
  <2>3. \A n \in 0..b : /\ Depth(x, a + n) = 1 + Depth(body, n)
    BY <2>1, <2>2
  <2>. SUFFICES ASSUME NEW n \in 1..c
                PROVE  Depth(x, n) \in Nat /\ Depth(x, n) >= 1 /\ (n = c => Depth(x, n) = 1)
    OBVIOUS
  <2>4. CASE n \in 1..a /\ n # a
    <3>1. n \in 0..a /\ n # c
      BY <1>2, <2>4
    <3>2. Depth(x, n) = 1
      BY <2>1, <2>2, <2>4, <3>1
    <3>. QED
      BY <3>1, <3>2
  <2>5. CASE n = a \/ n \notin 1..a
    <3>1. n - a \in 0..b /\ a + (n - a) = n /\ (n = c => n - a = b)
      BY <1>2, <2>5 DEF c
    <3>2. Depth(x, n) = 1 + Depth(body, n - a) /\ Depth(body, n - a) \in Nat
      BY <1>4, <2>3, <3>1
    <3>. QED
      BY <1>4, <3>1, <3>2
  <2>. QED
    BY <2>4, <2>5
<1>10. /\ w \in Seq(Piece) /\ Len(w) = c + 3
       /\ \A k \in 1..c : w[k] = x[k]
       /\ \A k \in 1..3 : w[c + k] = v[k]
       /\ \A n \in 1..(c + 3) : n \in 1..c \/ \E k \in 1..3 : n = c + k
  <2>1. /\ w \in Seq(Piece) /\ Len(w) = Len(x) + Len(v)
        /\ \A k \in 1..Len(x) : w[k] = x[k]
        /\ \A k \in 1..Len(v) : w[Len(x) + k] = v[k]
        /\ \A n \in 1..Len(w) : n \in 1..Len(x) \/ \E k \in 1..Len(v) : n = Len(x) + k
    <3>1. x \in Seq(Piece) /\ v \in Seq(Piece)
      BY <1>3, <1>7
    <3>. HIDE DEF x
    <3>. QED
      BY <3>1, JoinAt
  <2>. HIDE DEF w
  <2>. QED
    BY <1>3, <1>7, <2>1
<1>11. /\ \A n \in 0..c : Depth(w, n) = Depth(x, n)
       /\ \A n \in 1..3 : Depth(w, c + n) = 0
  <2>1. x \in Seq(Segment)
    BY <1>7, PiecesAreSegments
  <2>2. /\ \A n \in 0..Len(x) : Depth(w, n) = Depth(x, n)
        /\ \A n \in 0..Len(v) : Depth(w, Len(x) + n) = Depth(x, Len(x)) + Depth(v, n)
    BY <1>6, <2>1, DepthJoin
  <2>. HIDE DEF w, x, c
  <2>3. c \in 1..c /\ \A n \in 1..3 : n \in 0..3
    BY <1>2
  <2>4. Depth(x, c) = 1
    BY <1>9, <2>3
  <2>5. \A n \in 1..3 : Depth(w, c + n) = 1 + (0 - 1)
    BY <1>3, <1>7, <2>2, <2>3, <2>4
  <2>. QED
    BY <1>7, <2>2, <2>5
<1>12. IsElement(w, tag, attributes, body)
  <2>. HIDE DEF w, x
  <2>1. /\ 1 \in 1..a /\ 2 \in 1..a /\ a \in 1..a
        /\ \A k \in 1..Len(attributes) : 2 + k \in 1..a
        /\ \A k \in 1..a : k \in 1..c
        /\ \A k \in 1..b : a + k \in 1..c
        /\ 1 \in 1..3 /\ 2 \in 1..3 /\ 3 \in 1..3
    BY <1>1, <1>2
  <2>2. /\ w[1] = Control("open") /\ w[2] = Word(tag) /\ w[a] = Control("sep")
        /\ \A k \in 1..Len(attributes) : w[2 + k] = attributes[k]
        /\ \A k \in 1..b : w[a + k] = body[k]
        /\ w[c + 1] = Control("close") /\ w[c + 2] = Word(tag) /\ w[c + 3] = Control("sep")
    <3>. HIDE DEF a, c
    <3>. QED
      BY <1>1, <1>3, <1>7, <1>10, <2>1
  <2>3. ASSUME NEW n \in 1..Len(w)
        PROVE  \/ n \in 1..2 \/ n = a \/ n \in (c + 1)..(c + 3)
               \/ \E k \in 1..Len(attributes) : n = 2 + k
               \/ \E k \in 1..b : n = a + k
    <3>1. \/ n \in 1..2 \/ n = a \/ n \in (c + 1)..(c + 3)
          \/ (n - 2 \in 1..Len(attributes) /\ n = 2 + (n - 2))
          \/ (n - a \in 1..b /\ n = a + (n - a))
      BY <1>1, <1>2, <1>10
    <3>. QED
      BY <3>1
  <2>. QED
    BY <1>1, <1>2, <1>10, <2>2, <2>3 DEF IsElement, b
<1>13. Balanced(w)
  <2>. HIDE DEF w, x, a, c
  <2>0. c + 1 \in 1..Len(w) /\ c + 2 \in 1..Len(w) /\ c + 3 \in 1..Len(w)
        /\ \A n \in 1..c : n \in 1..Len(w) /\ n \in 0..c
        /\ 1 \in 1..3 /\ 2 \in 1..3 /\ 3 \in 1..3 /\ (c + 1) + 1 = c + 2
    BY <1>2, <1>10
  <2>1. /\ w[c + 1].text = "close" /\ ~w[c + 2].special /\ w[c + 3].text = "sep"
        /\ w[1].text = "open" /\ w[1].special /\ w[2].text = tag /\ w[c + 2].text = tag
    <3>1. /\ w[c + 1] = Control("close") /\ w[c + 2] = Word(tag) /\ w[c + 3] = Control("sep")
          /\ w[1] = Control("open") /\ w[2] = Word(tag)
      <4>1. a >= 3 /\ 1 \in 1..a /\ 2 \in 1..a /\ 1 \in 1..c /\ 2 \in 1..c
        BY <1>2
      <4>. QED
        BY <1>1, <1>3, <1>7, <1>10, <2>0, <4>1
    <3>2. /\ Control("close").text = "close" /\ Control("sep").text = "sep"
          /\ Control("open").text = "open" /\ Control("open").special
      BY ControlIs DEF Labels
    <3>3. ~Word(tag).special /\ Word(tag).text = tag
      BY WordIs
    <3>. QED
      BY <3>1, <3>2, <3>3
  <2>2. /\ \A n \in 1..c : IsOpen(x[n]) \/ IsClose(x[n]) => n + 1 \in 1..c
        /\ \A n \in 0..c : Depth(x, n) \in Nat
        /\ \A n \in 1..c : IsClose(x[n]) => MatchedAt(x, n)
    BY <1>7, <1>8 DEF Tidy
  <2>3. ASSUME NEW n \in 1..Len(w), IsOpen(w[n]) \/ IsClose(w[n]) PROVE n + 1 \in 1..Len(w)
    <3>1. n \in 1..c \/ n = c + 1 \/ n = c + 2 \/ n = c + 3
      BY <1>2, <1>10
    <3>2. CASE n \in 1..c
      <4>1. n + 1 \in 1..c
        BY <1>10, <2>2, <2>3, <3>2
      <4>. QED
        BY <2>0, <4>1
    <3>3. CASE n = c + 2 \/ n = c + 3
      BY <2>1, <2>3, <3>3 DEF IsOpen, IsClose
    <3>4. (c + 1) + 1 = c + 2
      BY <1>2
    <3>. QED
      BY <2>0, <3>1, <3>2, <3>3, <3>4
  <2>4. ASSUME NEW n \in 0..Len(w) PROVE Depth(w, n) \in Nat
    <3>1. n \in 0..c \/ (n - c \in 1..3 /\ c + (n - c) = n)
      BY <1>2, <1>10
    <3>. QED
      BY <1>11, <2>2, <3>1
  <2>5. ASSUME NEW n \in 1..Len(w), IsClose(w[n]) PROVE MatchedAt(w, n)
    <3>1. n \in 1..c \/ n = c + 1 \/ n = c + 2 \/ n = c + 3
      BY <1>2, <1>10
    <3>2. CASE n \in 1..c
      <4>1. IsClose(x[n])
        BY <1>10, <2>5, <3>2
      <4>2. MatchedAt(x, n) /\ n + 1 \in 1..Len(x) /\ n \in 1..Len(x)
        BY <1>7, <2>2, <3>2, <4>1
      <4>3. x \in Seq(Segment)
        BY <1>7, PiecesAreSegments
      <4>. QED
        BY <1>6, <4>2, <4>3, MatchLeft DEF w
    <3>3. CASE n = c + 2 \/ n = c + 3
      BY <2>1, <2>5, <3>3 DEF IsClose
    <3>4. CASE n = c + 1
      <4>1. 1 \in 1..(n - 1) /\ 1 \in 1..c /\ \A l \in 1..(n - 1) : l \in 1..c /\ l \in 0..c
        BY <1>2, <3>4
      <4>2. Depth(w, n) = 0
        BY <1>11, <2>0, <3>4
      <4>3. \A l \in 1..(n - 1) : Depth(w, l) \in Nat /\ Depth(w, l) >= 1
        BY <1>9, <1>11, <4>1
      <4>4. Depth(w, 1) = 1
        <5>1. Depth(x, 1) = Depth(u, 1)
          <6>1. 1 \in 0..Len(u)
            BY <1>1, <1>2
          <6>. QED
            BY <1>6, <6>1, DepthJoin DEF x
        <5>2. 1 \in 1..Len(u)
          BY <1>1, <1>2
        <5>3. Depth(u, 1) = 1
          BY <1>1, <5>2
        <5>4. 1 \in 0..c
          BY <1>2
        <5>. QED
          BY <1>11, <5>1, <5>3, <5>4
      <4>5. IsOpen(w[1]) /\ w[1 + 1].text = w[n + 1].text
        <5>1. 1 + 1 = 2 /\ n + 1 = c + 2
          BY <1>2, <3>4
        <5>. QED
          BY <2>1, <5>1 DEF IsOpen
      <4>6. \A l \in 1..(n - 1) : Depth(w, l) > Depth(w, n)
        BY <4>2, <4>3
      <4>7. Depth(w, 1) = Depth(w, n) + 1
        BY <4>2, <4>4
      <4>. QED
        BY <4>1, <4>5, <4>6, <4>7 DEF MatchedAt
    <3>. QED
      BY <3>1, <3>2, <3>3, <3>4
  <2>6. Depth(w, Len(w)) = 0
    BY <1>10, <1>11, <2>0
  <2>. QED
    BY <2>3, <2>4, <2>5, <2>6 DEF Balanced, Tidy
<1>. QED
  BY <1>5, <1>12, <1>13

\* Elements other than messages are contents, and so is all that is made of them.
LEMMA ElementInContents ==
    ASSUME NEW tag \in Labels \ Unseen, NEW attributes \in Words, NEW body \in Contents
    PROVE  Element(tag, attributes, body) \in Contents
<1>. DEFINE w == Element(tag, attributes, body)
            a == Len(attributes) + 3
            c == a + Len(body)
<1>1. /\ attributes \in Seq(Piece) /\ body \in Seq(Piece) /\ Balanced(body)
      /\ \A n \in 1..Len(attributes) : ~attributes[n].special /\ attributes[n].text \notin Unseen
      /\ \A n \in 1..Len(body) : body[n].text \notin Unseen
  BY DEF Words, Contents
<1>2. IsElement(w, tag, attributes, body) /\ Balanced(w)
  BY <1>1, ElementIs
<1>. HIDE DEF w
<1>3. /\ w \in Seq(Piece) /\ Len(w) = c + 3 /\ Len(attributes) \in Nat /\ Len(body) \in Nat
      /\ w[1] = Control("open") /\ w[2] = Word(tag)
      /\ \A k \in 1..Len(attributes) : w[2 + k] = attributes[k]
      /\ w[a] = Control("sep")
      /\ \A k \in 1..Len(body) : w[a + k] = body[k]
      /\ w[c + 1] = Control("close") /\ w[c + 2] = Word(tag) /\ w[c + 3] = Control("sep")
      /\ \A n \in 1..Len(w) : \/ n \in 1..2 \/ n = a \/ n \in (c + 1)..(c + 3)
                              \/ \E k \in 1..Len(attributes) : n = 2 + k
                              \/ \E k \in 1..Len(body) : n = a + k
  BY <1>2 DEF IsElement
<1>. HIDE DEF a, c
<1>4. /\ Control("open").text \notin Unseen /\ Control("sep").text \notin Unseen
      /\ Control("close").text \notin Unseen /\ Word(tag).text \notin Unseen
  BY ControlIs, WordIs DEF Labels, Unseen
<1>5. ASSUME NEW n \in 1..Len(w) PROVE w[n].text \notin Unseen
  <2>0. c \in Int
    BY <1>3 DEF c, a
  <2>1. CASE n = 1 \/ n = 2 \/ n = a \/ n = c + 1 \/ n = c + 2 \/ n = c + 3
    BY <1>3, <1>4, <2>1
  <2>2. ASSUME NEW k \in 1..Len(attributes), n = 2 + k PROVE w[n].text \notin Unseen
    BY <1>1, <1>3, <2>2
  <2>3. ASSUME NEW k \in 1..Len(body), n = a + k PROVE w[n].text \notin Unseen
    BY <1>1, <1>3, <2>3
  <2>4. /\ n \in 1..2 => n = 1 \/ n = 2
        /\ n \in (c + 1)..(c + 3) => n = c + 1 \/ n = c + 2 \/ n = c + 3
    BY <2>0
  <2>. QED
    BY <1>3, <2>1, <2>2, <2>3, <2>4
<1>6. w \in Contents
  BY <1>2, <1>3, <1>5 DEF Contents
<1>. QED
  BY <1>6 DEF w

LEMMA IndexIs ==
    ASSUME NEW k \in Nat
    PROVE  <<Index(k)>> \in Words
<1>1. Index(k) \in Piece /\ ~Index(k).special /\ Index(k).text = "index"
  BY DEF Index, Word, Piece, Segment, Labels
<1>. DEFINE x == Index(k)
<1>2. x \in Piece /\ ~x.special /\ x.text \notin Unseen
  BY <1>1 DEF Unseen
<1>. HIDE DEF x
<1>3. <<x>> \in Words
  BY <1>2 DEF Words
<1>. QED
  BY <1>3 DEF x

LEMMA ToolIs ==
    ASSUME NEW name \in Names \cup {Nothing}, NEW place \in Nat
    PROVE  <<Tool(name, place)>> \in Words
<1>1. /\ Tool(name, place) \in Piece /\ ~Tool(name, place).special
      /\ Tool(name, place).text = "tool name"
  BY DEF Tool, Word, Piece, Segment, Labels
<1>. DEFINE x == Tool(name, place)
<1>2. x \in Piece /\ ~x.special /\ x.text \notin Unseen
  BY <1>1 DEF Unseen
<1>. HIDE DEF x
<1>3. <<x>> \in Words
  BY <1>2 DEF Words
<1>. QED
  BY <1>3 DEF x

LEMMA OneWord ==
    ASSUME NEW word \in Labels \ Unseen
    PROVE  <<Word(word)>> \in Words
<1>. DEFINE x == Word(word)
<1>1. x \in Piece /\ ~x.special /\ x.text \notin Unseen
  BY WordIs
<1>. HIDE DEF x
<1>2. <<x>> \in Words
  BY <1>1 DEF Words
<1>. QED
  BY <1>2 DEF x

LEMMA TwoWords ==
    ASSUME NEW x, NEW y, <<x>> \in Words, <<y>> \in Words
    PROVE  <<x, y>> \in Words
<1>1. ASSUME NEW z, <<z>> \in Words PROVE z \in Piece /\ ~z.special /\ z.text \notin Unseen
  <2>. DEFINE u == <<z>>
  <2>1. u \in Words /\ u[1] = z /\ 1 \in 1..Len(u)
    BY <1>1
  <2>. HIDE DEF u
  <2>. QED
    BY <2>1 DEF Words
<1>2. /\ x \in Piece /\ ~x.special /\ x.text \notin Unseen
      /\ y \in Piece /\ ~y.special /\ y.text \notin Unseen
  BY <1>1
<1>3. /\ <<x, y>> \in Seq(Piece) /\ Len(<<x, y>>) = 2
      /\ <<x, y>>[1] = x /\ <<x, y>>[2] = y
      /\ \A n \in 1..2 : n = 1 \/ n = 2
  BY <1>2
<1>. QED
  BY <1>2, <1>3 DEF Words

LEMMA FlattenContents ==
    ASSUME NEW parts \in Seq(Contents)
    PROVE  FlattenSeq(parts) \in Contents
<1>1. <<>> \in Contents
  BY NothingIsWords, WordsAreContents
<1>2. \A x, y \in Contents : x \o y \in Contents
  BY ContentsJoin
<1>. QED
  BY <1>1, <1>2, FlattenIn

LEMMA CallInContents ==
    ASSUME NEW c \in Call, NEW k \in Nat, NEW place \in Nat
    PROVE  CallElement(c, k, place) \in Contents
<1>. DEFINE t == IF c.marked THEN "marker" ELSE "plain"
            s == c.arguments
            parts == [j \in 1..ArgumentCount(s) |->
                         Element("argument", <<Index(j)>>, Free(t, "argument", place))]
            body == IF IsRaw(s) THEN Element("json", <<>>, Free(t, "json", place))
                    ELSE FlattenSeq(parts)
<1>1. /\ s \in Seq(Lexemes) /\ c.name \in Names \cup {Nothing} /\ t \in Texts
      /\ {"argument", "json", "call"} \subseteq Labels \ Unseen
  BY DEF Call, Texts, Labels, Tags, Unseen
<1>2. ArgumentCount(s) \in Nat
  BY <1>1, ArgumentsRead
<1>3. /\ Free(t, "argument", place) \in Contents /\ Free(t, "json", place) \in Contents
      /\ <<>> \in Words
  BY <1>1, FreeIs, WordsAreContents, NothingIsWords
<1>. HIDE DEF t
<1>4. \A j \in 1..ArgumentCount(s) :
          Element("argument", <<Index(j)>>, Free(t, "argument", place)) \in Contents
  <2>1. \A j \in 1..ArgumentCount(s) : <<Index(j)>> \in Words
    BY <1>2, IndexIs
  <2>. QED
    BY <1>1, <1>3, <2>1, ElementInContents
<1>5. Element("json", <<>>, Free(t, "json", place)) \in Contents
  BY <1>1, <1>3, ElementInContents
<1>6. parts \in Seq(Contents)
  <2>. DEFINE n == ArgumentCount(s)
              E(j) == Element("argument", <<Index(j)>>, Free(t, "argument", place))
  <2>1. parts = [j \in 1..n |-> E(j)] /\ n \in Nat /\ \A j \in 1..n : E(j) \in Contents
    BY <1>2, <1>4
  <2>. HIDE DEF n, E
  <2>2. [j \in 1..n |-> E(j)] \in Seq(Contents)
    BY <2>1
  <2>. QED
    BY <2>1, <2>2
<1>7. body \in Contents
  BY <1>5, <1>6, FlattenContents
<1>8. <<Tool(c.name, 0), Index(k)>> \in Words
  BY <1>1, ToolIs, IndexIs, TwoWords
<1>9. CallElement(c, k, place) = Element("call", <<Tool(c.name, 0), Index(k)>>, body)
  BY DEF CallElement, t
<1>. HIDE DEF body
<1>. QED
  BY <1>1, <1>7, <1>8, <1>9, ElementInContents

LEMMA AnswerInContents ==
    ASSUME NEW m \in Message
    PROVE  Answer(m) \in Contents
<1>. DEFINE elements == [k \in 1..Len(m.calls) |-> CallElement(m.calls[k], k, m.at)]
            think == IF thinking THEN Element("think", <<>>, Free(m.reasoning, "reasoning", m.at))
                     ELSE <<>>
            response == Element("response", <<>>, Free(m.text, "content", m.at))
            toolCalls == IF m.calls = <<>> THEN <<>>
                         ELSE Element("tools", <<>>, FlattenSeq(elements))
<1>1. /\ m.calls \in Seq(Call) /\ m.at \in Nat /\ m.text \in Texts /\ m.reasoning \in Texts
      /\ {"think", "response", "tools", "reasoning", "content"} \subseteq Labels \ Unseen
  BY DEF Message, Labels, Tags, Unseen
<1>2. \A k \in 1..Len(m.calls) : m.calls[k] \in Call /\ k \in Nat
  BY <1>1
<1>3. \A k \in 1..Len(m.calls) : CallElement(m.calls[k], k, m.at) \in Contents
  BY <1>1, <1>2, CallInContents
<1>4. elements \in Seq(Contents)
  <2>1. Len(m.calls) \in Nat
    BY <1>1
  <2>. QED
    BY <1>3, <2>1
<1>5. FlattenSeq(elements) \in Contents
  BY <1>4, FlattenContents
<1>6. /\ Free(m.reasoning, "reasoning", m.at) \in Contents /\ Free(m.text, "content", m.at) \in Contents
      /\ <<>> \in Words /\ <<>> \in Contents
  BY <1>1, FreeIs, WordsAreContents, NothingIsWords
<1>. HIDE DEF elements
<1>7. think \in Contents /\ response \in Contents /\ toolCalls \in Contents
  BY <1>1, <1>5, <1>6, ElementInContents
<1>8. Answer(m) = (think \o response) \o toolCalls
  BY DEF Answer, elements
<1>. HIDE DEF think, response, toolCalls
<1>. QED
  BY <1>7, <1>8, ContentsJoin

-----------------------------------------------------------------------------
(***************************************************************************)
(* Messages                                                                *)
(***************************************************************************)
\* Where messages begin.
Heads(w, n) == {k \in 1..n : IsOpen(w[k]) /\ w[k + 1].text = "message"}

\* One message: the role and the attributes come first, no other message is inside it, and
\* its end is the end of all its elements.
IsBlock(w, role, attributes) ==
    /\ w \in Seq(Piece) /\ Balanced(w)
    /\ Len(w) >= Len(attributes) + 3 /\ Len(attributes) \in Nat
    /\ w[3] = Word(role) /\ \A k \in 1..Len(attributes) : w[3 + k] = attributes[k]
    /\ Heads(w, Len(w)) = {1}
    /\ \A n \in 1..Len(w) : w[n].text = "end_of_msg" => Depth(w, n) = 0

\* A message around contents is a block.
LEMMA WholeIs ==
    ASSUME NEW role \in Labels \ Unseen, NEW attributes \in Words, NEW body \in Contents
    PROVE  IsBlock(Whole(role, attributes, body), role, attributes)
<1>. DEFINE r == <<Word(role)>>
            h == r \o attributes
            x == Element("message", h, body)
            v == <<Control("end_of_msg")>>
            w == x \o v
            a == Len(h) + 3
            c == a + Len(body)
            m == Len(attributes)
<1>1. h \in Words /\ m \in Nat /\ Len(h) = m + 1 /\ h[1] = Word(role)
      /\ \A k \in 1..m : h[1 + k] = attributes[k]
  <2>1. r \in Words /\ r[1] = Word(role) /\ Len(r) = 1
    BY OneWord
  <2>. HIDE DEF r
  <2>2. r \in Seq(Piece) /\ attributes \in Seq(Piece)
    BY <2>1 DEF Words
  <2>3. /\ Len(h) = Len(r) + Len(attributes) /\ Len(attributes) \in Nat
        /\ \A k \in 1..Len(r) : h[k] = r[k]
        /\ \A k \in 1..Len(attributes) : h[Len(r) + k] = attributes[k]
    BY <2>2, JoinAt
  <2>4. h \in Words
    BY <2>1, WordsJoin
  <2>. HIDE DEF h
  <2>. QED
    BY <2>1, <2>3, <2>4
<1>2. /\ h \in Seq(Piece) /\ body \in Seq(Piece) /\ Balanced(body) /\ Tidy(body)
      /\ \A n \in 1..Len(h) : ~h[n].special /\ h[n].text \notin Unseen
      /\ \A n \in 1..Len(body) : body[n].text \notin Unseen
  BY <1>1 DEF Words, Contents, Balanced
<1>. HIDE DEF h, r
<1>3. IsElement(x, "message", h, body) /\ Balanced(x)
  BY <1>2, ElementIs DEF Labels, Tags
<1>4. /\ x \in Seq(Piece) /\ Len(x) = c + 3 /\ Len(h) \in Nat /\ Len(body) \in Nat
      /\ x[1] = Control("open") /\ x[2] = Word("message")
      /\ \A k \in 1..Len(h) : x[2 + k] = h[k]
      /\ x[a] = Control("sep")
      /\ \A k \in 1..Len(body) : x[a + k] = body[k]
      /\ x[c + 1] = Control("close") /\ x[c + 2] = Word("message") /\ x[c + 3] = Control("sep")
      /\ \A n \in 1..Len(x) : \/ n \in 1..2 \/ n = a \/ n \in (c + 1)..(c + 3)
                              \/ \E k \in 1..Len(h) : n = 2 + k
                              \/ \E k \in 1..Len(body) : n = a + k
  BY <1>3 DEF IsElement
<1>5. Control("end_of_msg") \in Piece /\ Control("end_of_msg").text = "end_of_msg"
  BY ControlIs DEF Labels
<1>6. v \in Seq(Piece) /\ Len(v) = 1 /\ v[1] = Control("end_of_msg")
  BY <1>5
<1>. HIDE DEF x, v
<1>7. Balanced(v)
  <2>1. \A n \in 1..Len(v) : ~IsOpen(v[n]) /\ ~IsClose(v[n])
    BY <1>5, <1>6 DEF IsOpen, IsClose
  <2>. QED
    BY <1>6, <2>1, NoDepth
<1>8. w \in Seq(Piece) /\ Balanced(w)
  BY <1>3, <1>4, <1>6, <1>7, BalancedJoin
<1>9. /\ Len(w) = c + 4
      /\ \A k \in 1..(c + 3) : w[k] = x[k]
      /\ w[c + 4] = Control("end_of_msg")
  <2>1. /\ Len(w) = Len(x) + Len(v)
        /\ \A k \in 1..Len(x) : w[k] = x[k]
        /\ \A k \in 1..Len(v) : w[Len(x) + k] = v[k]
    <3>1. x \in Seq(Piece) /\ v \in Seq(Piece)
      BY <1>4, <1>6
    <3>. QED
      BY <3>1, JoinAt
  <2>. HIDE DEF w
  <2>2. 1 \in 1..Len(v) /\ Len(x) + 1 = c + 4 /\ Len(x) + Len(v) = c + 4
    BY <1>4, <1>6
  <2>. QED
    BY <1>4, <1>6, <2>1, <2>2
<1>10. Whole(role, attributes, body) = w
  BY DEF Whole, w, x, h, r, v
<1>. HIDE DEF w
<1>11. /\ m \in Nat /\ a = m + 4 /\ c \in Nat /\ c >= a
  BY <1>1, <1>4
<1>. HIDE DEF a, c, m
<1>12. /\ Control("open").text = "open" /\ Control("sep").text = "sep"
       /\ Control("close").text = "close" /\ Control("open").special
       /\ ~Word("message").special /\ Word("message").text = "message"
  BY ControlIs, WordIs DEF Labels, Tags
<1>13. /\ 1 \in 1..(c + 3) /\ 2 \in 1..(c + 3) /\ 3 \in 1..(c + 3) /\ a \in 1..(c + 3)
       /\ c + 1 \in 1..(c + 3) /\ c + 2 \in 1..(c + 3) /\ c + 3 \in 1..(c + 3)
       /\ 1 \in 1..Len(h) /\ 2 + 1 = 3
  BY <1>1, <1>11
<1>14. w[1] = Control("open") /\ w[2] = Word("message") /\ w[3] = Word(role) /\ w[a] = Control("sep")
       /\ w[c + 1] = Control("close") /\ w[c + 2] = Word("message") /\ w[c + 3] = Control("sep")
  BY <1>1, <1>4, <1>9, <1>13
<1>15. \A k \in 1..m : w[3 + k] = attributes[k]
  <2>. SUFFICES ASSUME NEW k \in 1..m PROVE w[3 + k] = attributes[k]
    OBVIOUS
  <2>1. 1 + k \in 1..Len(h) /\ 3 + k \in 1..(c + 3) /\ 2 + (1 + k) = 3 + k
    BY <1>1, <1>11
  <2>2. x[2 + (1 + k)] = h[1 + k] /\ h[1 + k] = attributes[k]
    BY <1>1, <1>4, <2>1
  <2>. QED
    BY <1>9, <2>1, <2>2
<1>16. ASSUME NEW n \in 1..Len(w)
       PROVE  \/ n \in {1, 2, a, c + 1, c + 2, c + 3, c + 4}
              \/ \E k \in 1..Len(h) : n = 2 + k
              \/ \E k \in 1..Len(body) : n = a + k
  <2>1. n = c + 4 \/ n \in 1..Len(x)
    BY <1>4, <1>9, <1>11
  <2>2. /\ n \in 1..2 => n = 1 \/ n = 2
        /\ n \in (c + 1)..(c + 3) => n = c + 1 \/ n = c + 2 \/ n = c + 3
    BY <1>11
  <2>. QED
    BY <1>4, <2>1, <2>2
<1>17. ASSUME NEW k \in 1..Len(h)
       PROVE  w[2 + k] = h[k] /\ ~h[k].special /\ h[k].text \notin Unseen
  <2>1. 2 + k \in 1..(c + 3)
    BY <1>1, <1>11
  <2>. QED
    BY <1>2, <1>4, <1>9, <2>1
<1>18. ASSUME NEW k \in 1..Len(body)
       PROVE  /\ w[a + k] = body[k] /\ body[k].text \notin Unseen
              /\ IsOpen(body[k]) => w[(a + k) + 1].text # "message"
  <2>0. \A j \in 1..Len(body) : a + j \in 1..(c + 3)
    BY <1>4, <1>11 DEF c
  <2>1. \A j \in 1..Len(body) : w[a + j] = body[j]
    BY <1>4, <1>9, <2>0
  <2>2. ASSUME IsOpen(body[k]) PROVE w[(a + k) + 1].text # "message"
    <3>1. k + 1 \in 1..Len(body)
      BY <1>2, <2>2 DEF Tidy
    <3>2. a + (k + 1) = (a + k) + 1
      BY <1>11
    <3>3. w[a + (k + 1)] = body[k + 1]
      BY <2>1, <3>1
    <3>. QED
      BY <1>2, <3>1, <3>2, <3>3 DEF Unseen
  <2>. QED
    BY <1>2, <2>1, <2>2
<1>19. Heads(w, Len(w)) = {1}
  <2>1. 1 \in Heads(w, Len(w))
    <3>1. 1 \in 1..Len(w) /\ 1 + 1 = 2
      BY <1>9, <1>11
    <3>2. IsOpen(w[1])
      BY <1>12, <1>14 DEF IsOpen
    <3>. QED
      BY <1>12, <1>14, <3>1, <3>2 DEF Heads
  <2>2. ASSUME NEW n \in 1..Len(w), n # 1, IsOpen(w[n]), w[n + 1].text = "message" PROVE FALSE
    <3>1. CASE n = 2 \/ n = c + 2
      BY <1>12, <1>14, <2>2, <3>1 DEF IsOpen
    <3>2. CASE n = a \/ n = c + 1 \/ n = c + 3
      BY <1>12, <1>14, <2>2, <3>2 DEF IsOpen
    <3>3. CASE n = c + 4
      BY <1>5, <1>9, <2>2, <3>3 DEF IsOpen
    <3>4. ASSUME NEW k \in 1..Len(h), n = 2 + k PROVE FALSE
      BY <1>17, <2>2, <3>4 DEF IsOpen
    <3>5. ASSUME NEW k \in 1..Len(body), n = a + k PROVE FALSE
      BY <1>18, <2>2, <3>5
    <3>. QED
      BY <1>16, <2>2, <3>1, <3>2, <3>3, <3>4, <3>5
  <2>. QED
    BY <2>1, <2>2 DEF Heads
<1>20. ASSUME NEW n \in 1..Len(w), w[n].text = "end_of_msg" PROVE Depth(w, n) = 0
  <2>1. n # 1 /\ n # 2 /\ n # a /\ n # c + 1 /\ n # c + 2 /\ n # c + 3
    BY <1>12, <1>14, <1>20
  <2>2. ~ \E k \in 1..Len(h) : n = 2 + k
    BY <1>17, <1>20 DEF Unseen
  <2>3. ~ \E k \in 1..Len(body) : n = a + k
    BY <1>18, <1>20 DEF Unseen
  <2>4. n = c + 4
    BY <1>16, <2>1, <2>2, <2>3
  <2>. QED
    BY <1>8, <1>9, <2>4 DEF Balanced
<1>21. Len(w) >= m + 3
  BY <1>9, <1>11
<1>22. IsBlock(w, role, attributes)
  BY <1>8, <1>11, <1>14, <1>15, <1>19, <1>20, <1>21 DEF IsBlock, m
<1>. QED
  BY <1>10, <1>22

-----------------------------------------------------------------------------
(***************************************************************************)
(* Prompts                                                                 *)
(***************************************************************************)
\* In w there are t messages and d elements are open at its end; the messages f + 1 to f + n
\* have the roles of the first n of o, and all elements end with their message.
Tells(w, d, t, f, n, o) ==
    /\ w \in Seq(Piece) /\ Tidy(w) /\ Depth(w, Len(w)) = d
    /\ Cardinality(Heads(w, Len(w))) = t
    /\ \A m \in 1..n : \E k \in 1..Len(w) :
          /\ k \in Heads(w, k) /\ Cardinality(Heads(w, k)) = f + m
          /\ k + 2 \in 1..Len(w) /\ w[k + 2].text = o[m].role
    /\ \A m \in 1..Len(w) : w[m].text = "end_of_msg" => Depth(w, m) = 0

\* A concatenation has the messages of its parts.
LEMMA HeadsJoin ==
    ASSUME NEW u \in Seq(Segment), NEW v \in Seq(Segment), Tidy(u), Tidy(v)
    PROVE  /\ \A n \in 0..Len(u) : Heads(u \o v, n) = Heads(u, n)
           /\ \A n \in 0..Len(v) :
                 Heads(u \o v, Len(u) + n) = Heads(u, Len(u)) \cup Shifted(Len(u), Heads(v, n))
<1>. DEFINE w == u \o v
            a == Len(u)
            b == Len(v)
<1>1. /\ a \in Nat /\ b \in Nat
      /\ \A k \in 1..a : w[k] = u[k]
      /\ \A k \in 1..b : w[a + k] = v[k]
  BY JoinAt
<1>2. /\ \A n \in 1..a : IsOpen(u[n]) => n + 1 \in 1..a
      /\ \A n \in 1..b : IsOpen(v[n]) => n + 1 \in 1..b
  BY DEF Tidy
<1>. HIDE DEF w, a, b
<1>3. ASSUME NEW k \in 1..a
      PROVE  (IsOpen(w[k]) /\ w[k + 1].text = "message") <=> (IsOpen(u[k]) /\ u[k + 1].text = "message")
  BY <1>1, <1>2
<1>4. ASSUME NEW k \in 1..b
      PROVE  (IsOpen(w[a + k]) /\ w[(a + k) + 1].text = "message")
                 <=> (IsOpen(v[k]) /\ v[k + 1].text = "message")
  <2>1. (a + k) + 1 = a + (k + 1) /\ w[a + k] = v[k]
    BY <1>1
  <2>2. IsOpen(v[k]) => w[a + (k + 1)] = v[k + 1]
    BY <1>1, <1>2
  <2>. QED
    BY <2>1, <2>2
<1>5. ASSUME NEW n \in 0..a PROVE Heads(w, n) = Heads(u, n)
  <2>1. \A k \in 1..n : k \in 1..a
    BY <1>1
  <2>. QED
    BY <1>3, <2>1 DEF Heads
<1>6. ASSUME NEW n \in 0..b PROVE Heads(w, a + n) = Heads(u, a) \cup Shifted(a, Heads(v, n))
  <2>1. /\ \A k \in 1..n : k \in 1..b /\ a + k \in 1..(a + n)
        /\ \A k \in 1..a : k \in 1..(a + n)
    BY <1>1
  <2>2. ASSUME NEW k \in 1..(a + n) PROVE k \in 1..a \/ \E j \in 1..n : k = a + j
    <3>1. k \in 1..a \/ (k - a \in 1..n /\ k = a + (k - a))
      BY <1>1
    <3>. QED
      BY <3>1
  <2>3. ASSUME NEW k \in Heads(w, a + n) PROVE k \in Heads(u, a) \cup Shifted(a, Heads(v, n))
    <3>1. k \in 1..(a + n) /\ IsOpen(w[k]) /\ w[k + 1].text = "message"
      BY <2>3 DEF Heads
    <3>2. CASE k \in 1..a
      BY <1>3, <3>1, <3>2 DEF Heads
    <3>3. ASSUME NEW j \in 1..n, k = a + j PROVE k \in Shifted(a, Heads(v, n))
      <4>1. j \in Heads(v, n)
        BY <1>4, <2>1, <3>1, <3>3 DEF Heads
      <4>. QED
        BY <3>3, <4>1 DEF Shifted
    <3>. QED
      BY <2>2, <3>1, <3>2, <3>3
  <2>4. ASSUME NEW k \in Heads(u, a) PROVE k \in Heads(w, a + n)
    BY <1>3, <2>1, <2>4 DEF Heads
  <2>5. ASSUME NEW k \in Shifted(a, Heads(v, n)) PROVE k \in Heads(w, a + n)
    <3>1. PICK j \in Heads(v, n) : k = a + j
      BY <2>5 DEF Shifted
    <3>2. j \in 1..n /\ IsOpen(v[j]) /\ v[j + 1].text = "message"
      BY <3>1 DEF Heads
    <3>. QED
      BY <1>4, <2>1, <3>1, <3>2 DEF Heads
  <2>. QED
    BY <2>3, <2>4, <2>5
<1>. QED
  BY <1>5, <1>6 DEF w, a, b

\* The messages of a sequence can be counted.
LEMMA HeadsType ==
    ASSUME NEW w, NEW n \in Nat
    PROVE  /\ Heads(w, n) \in SUBSET (1..n) /\ IsFiniteSet(Heads(w, n))
           /\ Cardinality(Heads(w, n)) \in Nat
<1>1. Heads(w, n) \in SUBSET (1..n)
  BY DEF Heads
<1>. QED
  BY <1>1, PartOfNumbers

\* What is counted in a concatenation of which only the first may be a message.
LEMMA TellsJoin ==
    ASSUME NEW u, NEW d \in Nat, NEW t \in Nat, NEW f \in Nat, NEW n \in Nat, NEW o,
           Tells(u, d, t, f, n, o),
           NEW v \in Seq(Piece), Tidy(v),
           \A m \in 1..Len(v) : v[m].text = "end_of_msg" => d = 0 /\ Depth(v, m) = 0
    PROVE  Tells(u \o v, d + Depth(v, Len(v)), t + Cardinality(Heads(v, Len(v))), f, n, o)
<1>. DEFINE w == u \o v
            a == Len(u)
            b == Len(v)
<1>1. /\ u \in Seq(Piece) /\ Tidy(u) /\ Depth(u, a) = d /\ Cardinality(Heads(u, a)) = t
      /\ \A m \in 1..n : \E k \in 1..a :
            /\ k \in Heads(u, k) /\ Cardinality(Heads(u, k)) = f + m
            /\ k + 2 \in 1..a /\ u[k + 2].text = o[m].role
      /\ \A m \in 1..a : u[m].text = "end_of_msg" => Depth(u, m) = 0
  BY DEF Tells
<1>2. u \in Seq(Segment) /\ v \in Seq(Segment)
  BY <1>1, PiecesAreSegments
<1>3. /\ w \in Seq(Piece) /\ a \in Nat /\ b \in Nat /\ Len(w) = a + b
      /\ \A k \in 1..a : w[k] = u[k] /\ k \in 1..Len(w)
      /\ \A k \in 1..b : w[a + k] = v[k] /\ a + k \in 1..Len(w)
      /\ \A k \in 1..Len(w) : k \in 1..a \/ \E l \in 1..b : k = a + l
  BY <1>1, JoinAt
<1>4. Tidy(w)
  BY <1>1, <1>2, TidyJoin
<1>5. /\ \A m \in 0..a : Depth(w, m) = Depth(u, m)
      /\ \A m \in 0..b : Depth(w, a + m) = Depth(u, a) + Depth(v, m)
  BY <1>2, DepthJoin
<1>6. /\ \A m \in 0..a : Heads(w, m) = Heads(u, m)
      /\ \A m \in 0..b : Heads(w, a + m) = Heads(u, a) \cup Shifted(a, Heads(v, m))
  BY <1>1, <1>2, HeadsJoin
<1>. HIDE DEF w, a, b
<1>7. b \in 0..b /\ \A m \in 1..a : m \in 0..a
  BY <1>3
<1>8. Depth(w, Len(w)) = d + Depth(v, b)
  BY <1>1, <1>3, <1>5, <1>7
<1>9. Cardinality(Heads(w, Len(w))) = t + Cardinality(Heads(v, b))
  <2>1. Heads(w, Len(w)) = Heads(u, a) \cup Shifted(a, Heads(v, b))
    BY <1>3, <1>6, <1>7
  <2>2. /\ Heads(u, a) \in SUBSET (1..a) /\ Heads(v, b) \in SUBSET (1..b)
        /\ IsFiniteSet(Heads(v, b))
    BY <1>3, HeadsType
  <2>3. Heads(v, b) \in SUBSET (Nat \ {0})
    BY <1>3, <2>2
  <2>4. Cardinality(Heads(u, a) \cup Shifted(a, Heads(v, b)))
            = Cardinality(Heads(u, a)) + Cardinality(Heads(v, b))
    BY <1>3, <2>2, <2>3, CountJoin
  <2>. QED
    BY <1>1, <2>1, <2>4
<1>10. ASSUME NEW m \in 1..n
       PROVE  \E k \in 1..Len(w) :
                  /\ k \in Heads(w, k) /\ Cardinality(Heads(w, k)) = f + m
                  /\ k + 2 \in 1..Len(w) /\ w[k + 2].text = o[m].role
  <2>1. PICK k \in 1..a : /\ k \in Heads(u, k) /\ Cardinality(Heads(u, k)) = f + m
                          /\ k + 2 \in 1..a /\ u[k + 2].text = o[m].role
    BY <1>1
  <2>2. Heads(w, k) = Heads(u, k)
    BY <1>6, <1>7
  <2>. QED
    BY <1>3, <2>1, <2>2
<1>11. ASSUME NEW m \in 1..Len(w), w[m].text = "end_of_msg" PROVE Depth(w, m) = 0
  <2>1. CASE m \in 1..a
    BY <1>1, <1>3, <1>5, <1>7, <1>11, <2>1
  <2>2. ASSUME NEW l \in 1..b, m = a + l PROVE Depth(w, m) = 0
    <3>1. v[l].text = "end_of_msg" /\ l \in 0..b
      BY <1>3, <1>11, <2>2
    <3>2. d = 0 /\ Depth(v, l) = 0
      BY <3>1 DEF b
    <3>. QED
      BY <1>1, <1>5, <2>2, <3>1, <3>2
  <2>. QED
    BY <1>3, <2>1, <2>2
<1>12. Tells(w, d + Depth(v, b), t + Cardinality(Heads(v, b)), f, n, o)
  BY <1>3, <1>4, <1>8, <1>9, <1>10, <1>11 DEF Tells
<1>. QED
  BY <1>12 DEF w, b

\* A block is one more message, and leaves what was told before.
LEMMA BlockJoins ==
    ASSUME NEW u, NEW t \in Nat, NEW f \in Nat, NEW n \in Nat, NEW o, Tells(u, 0, t, f, n, o),
           NEW v, NEW role, NEW attributes, IsBlock(v, role, attributes)
    PROVE  Tells(u \o v, 0, t + 1, f, n, o)
<1>1. /\ v \in Seq(Piece) /\ Tidy(v) /\ Depth(v, Len(v)) = 0 /\ Heads(v, Len(v)) = {1}
      /\ \A m \in 1..Len(v) : v[m].text = "end_of_msg" => Depth(v, m) = 0
  BY DEF IsBlock, Balanced
<1>2. Cardinality(Heads(v, Len(v))) = 1
  BY <1>1, FS_Singleton
<1>3. Tells(u \o v, 0 + Depth(v, Len(v)), t + Cardinality(Heads(v, Len(v))), f, n, o)
  <2>1. \A m \in 1..Len(v) : v[m].text = "end_of_msg" => 0 = 0 /\ Depth(v, m) = 0
    BY <1>1
  <2>2. v \in Seq(Piece) /\ Tidy(v) /\ 0 \in Nat
    BY <1>1
  <2>. QED
    BY <2>1, <2>2, TellsJoin
<1>. QED
  BY <1>1, <1>2, <1>3

\* The next message of the conversation.
LEMMA NextJoins ==
    ASSUME NEW u, NEW f \in Nat, NEW n \in Nat, NEW o, Tells(u, 0, f + n, f, n, o),
           NEW v, NEW attributes, IsBlock(v, o[n + 1].role, attributes), o[n + 1].role \in Labels
    PROVE  Tells(u \o v, 0, f + (n + 1), f, n + 1, o)
<1>. DEFINE w == u \o v
            a == Len(u)
            b == Len(v)
<1>1. Tells(w, 0, (f + n) + 1, f, n, o)
  BY BlockJoins
<1>2. /\ u \in Seq(Piece) /\ Tidy(u) /\ Cardinality(Heads(u, a)) = f + n
  BY DEF Tells
<1>3. /\ v \in Seq(Piece) /\ Tidy(v) /\ b >= 3 /\ v[3] = Word(o[n + 1].role)
      /\ Heads(v, b) = {1}
  BY DEF IsBlock, Balanced
<1>4. u \in Seq(Segment) /\ v \in Seq(Segment)
  BY <1>2, <1>3, PiecesAreSegments
<1>5. /\ a \in Nat /\ b \in Nat /\ Len(w) = a + b
      /\ \A k \in 1..b : w[a + k] = v[k] /\ a + k \in 1..Len(w)
  BY <1>2, <1>3, JoinAt
<1>6. \A m \in 0..b : Heads(w, a + m) = Heads(u, a) \cup Shifted(a, Heads(v, m))
  BY <1>2, <1>3, <1>4, HeadsJoin
<1>. HIDE DEF w, a, b
<1>7. 1 \in 0..b /\ 1 \in 1..b /\ 3 \in 1..b /\ a + 3 = (a + 1) + 2
  BY <1>3, <1>5
<1>8. Heads(v, 1) = {1}
  BY <1>3, <1>5 DEF Heads
<1>9. a + 1 \in Heads(w, a + 1) /\ Cardinality(Heads(w, a + 1)) = f + (n + 1)
  <2>1. Heads(w, a + 1) = Heads(u, a) \cup Shifted(a, {1})
    BY <1>6, <1>7, <1>8
  <2>2. a + 1 \in Shifted(a, {1})
    BY DEF Shifted
  <2>3. /\ Heads(u, a) \in SUBSET (1..a) /\ {1} \in SUBSET (Nat \ {0})
        /\ IsFiniteSet({1}) /\ Cardinality({1}) = 1
    <3>1. Heads(u, a) \in SUBSET (1..a)
      BY <1>5, HeadsType
    <3>2. IsFiniteSet({1}) /\ Cardinality({1}) = 1
      BY FS_Singleton
    <3>3. {1} \in SUBSET (Nat \ {0})
      OBVIOUS
    <3>. QED
      BY <3>1, <3>2, <3>3
  <2>4. Cardinality(Heads(u, a) \cup Shifted(a, {1})) = Cardinality(Heads(u, a)) + Cardinality({1})
    BY <1>5, <2>3, CountJoin
  <2>5. Cardinality(Heads(w, a + 1)) = (f + n) + 1
    BY <1>2, <2>1, <2>3, <2>4
  <2>6. (f + n) + 1 = f + (n + 1)
    OBVIOUS
  <2>7. a + 1 \in Heads(w, a + 1)
    BY <2>1, <2>2
  <2>. QED
    BY <2>5, <2>6, <2>7
<1>10. (a + 1) + 2 \in 1..Len(w) /\ w[(a + 1) + 2].text = o[n + 1].role /\ a + 1 \in 1..Len(w)
  <2>1. w[a + 3] = v[3] /\ a + 3 \in 1..Len(w) /\ a + 1 \in 1..Len(w)
    BY <1>5, <1>7
  <2>2. Word(o[n + 1].role).text = o[n + 1].role
    BY WordIs
  <2>. QED
    BY <1>3, <1>7, <2>1, <2>2
<1>11. ASSUME NEW m \in 1..(n + 1)
       PROVE  \E k \in 1..Len(w) :
                  /\ k \in Heads(w, k) /\ Cardinality(Heads(w, k)) = f + m
                  /\ k + 2 \in 1..Len(w) /\ w[k + 2].text = o[m].role
  <2>1. m \in 1..n \/ m = n + 1
    OBVIOUS
  <2>. QED
    BY <1>1, <1>9, <1>10, <2>1 DEF Tells
<1>12. (f + n) + 1 = f + (n + 1)
  OBVIOUS
<1>13. Tells(w, 0, f + (n + 1), f, n + 1, o)
  BY <1>1, <1>11, <1>12 DEF Tells
<1>. QED
  BY <1>13 DEF w

-----------------------------------------------------------------------------
(***************************************************************************)
(* What the steps write                                                    *)
(***************************************************************************)
LEMMA NameOfIs ==
    ASSUME NEW m \in Message
    PROVE  NameOf(m) \in Words
<1>1. m.name \in Names \cup {Nothing} /\ m.at \in Nat
  BY DEF Message
<1>2. <<Tool(m.name, m.at)>> \in Words /\ <<>> \in Words
  BY <1>1, ToolIs, NothingIsWords
<1>. QED
  BY <1>2 DEF NameOf

\* The name of a result is a name, or missing.
LEMMA ResultNameIs ==
    ASSUME calls \in Seq(Call), toolIndex \in Nat, NEW m \in Message
    PROVE  ResultName(m) \in Names \cup {Nothing}
<1>1. m.name \in Names \cup {Nothing}
  BY DEF Message
<1>2. ASSUME toolIndex < Len(calls) PROVE calls[toolIndex + 1].name \in Names \cup {Nothing}
  <2>1. toolIndex + 1 \in 1..Len(calls)
    BY <1>2
  <2>2. calls[toolIndex + 1] \in Call
    BY <2>1
  <2>. QED
    BY <2>2 DEF Call
<1>. QED
  BY <1>1, <1>2 DEF ResultName

\* A message of the conversation is written as one message.
LEMMA BodyIs ==
    ASSUME calls \in Seq(Call), toolIndex \in Nat, NEW m \in Message
    PROVE  \E attributes \in Words :
              /\ IsBlock(Body(m), m.role, attributes)
              /\ m.role = "tool" =>
                    attributes = <<Tool(ResultName(m), m.at), Index(toolIndex + 1)>>
<1>1. /\ m.role \in Labels \ Unseen /\ m.at \in Nat /\ m.text \in Texts
      /\ {"system", "assistant", "tool", "content", "tools"} \subseteq Labels \ Unseen
      /\ toolIndex + 1 \in Nat
  <2>1. m.role \in Roles /\ m.at \in Nat /\ m.text \in Texts
    BY DEF Message
  <2>2. Roles \cup {"content", "tools"} \subseteq Labels \ Unseen
    BY DEF Labels, Roles, Tags, Unseen
  <2>3. {"system", "assistant", "tool"} \subseteq Roles
    BY DEF Roles
  <2>4. toolIndex + 1 \in Nat
    OBVIOUS
  <2>. QED
    BY <2>1, <2>2, <2>3, <2>4
<1>2. NameOf(m) \in Words /\ Answer(m) \in Contents
  BY NameOfIs, AnswerInContents
<1>3. Free(m.text, "content", m.at) \in Contents /\ <<Word("tools")>> \in Contents /\ <<>> \in Words
  BY <1>1, FreeIs, OneWord, WordsAreContents, NothingIsWords
<1>4. <<Tool(ResultName(m), m.at), Index(toolIndex + 1)>> \in Words
  BY <1>1, ResultNameIs, ToolIs, IndexIs, TwoWords
<1>5. CASE m.role = "assistant"
  <2>1. Body(m) = Whole("assistant", NameOf(m), Answer(m))
    BY <1>5 DEF Body
  <2>2. IsBlock(Whole("assistant", NameOf(m), Answer(m)), "assistant", NameOf(m))
    BY <1>1, <1>2, WholeIs
  <2>. QED
    BY <1>2, <1>5, <2>1, <2>2
<1>6. CASE m.role = "system" /\ m.tools
  <2>1. Body(m) = Whole("system", <<>>, <<Word("tools")>>)
    BY <1>6 DEF Body
  <2>2. IsBlock(Whole("system", <<>>, <<Word("tools")>>), "system", <<>>)
    BY <1>1, <1>3, WholeIs
  <2>. QED
    BY <1>3, <1>6, <2>1, <2>2
<1>7. CASE m.role = "tool"
  <2>. DEFINE attributes == <<Tool(ResultName(m), m.at), Index(toolIndex + 1)>>
  <2>1. Body(m) = Whole("tool", attributes, Free(m.text, "content", m.at))
    BY <1>7 DEF Body
  <2>2. IsBlock(Whole("tool", attributes, Free(m.text, "content", m.at)), "tool", attributes)
    BY <1>1, <1>3, <1>4, WholeIs
  <2>. QED
    BY <1>4, <1>7, <2>1, <2>2
<1>8. CASE m.role # "assistant" /\ ~(m.role = "system" /\ m.tools) /\ m.role # "tool"
  <2>1. Body(m) = Whole(m.role, NameOf(m), Free(m.text, "content", m.at))
    BY <1>8 DEF Body
  <2>2. IsBlock(Whole(m.role, NameOf(m), Free(m.text, "content", m.at)), m.role, NameOf(m))
    BY <1>1, <1>2, <1>3, WholeIs
  <2>. QED
    BY <1>2, <1>8, <2>1, <2>2
<1>. QED
  BY <1>5, <1>6, <1>7, <1>8

\* How many of one thing there are.
One(given) == IF given THEN 1 ELSE 0

\* An instruction that may be there.
LEMMA MaybeJoins ==
    ASSUME NEW u, NEW t \in Nat, NEW f \in Nat, NEW n \in Nat, NEW o, Tells(u, 0, t, f, n, o),
           NEW kind \in Labels \ Unseen, NEW given \in BOOLEAN
    PROVE  Tells(u \o (IF given THEN Internal(kind) ELSE <<>>), 0, t + One(given), f, n, o)
<1>1. CASE given
  <2>1. <<Word(kind)>> \in Words /\ <<Word("instruction")>> \in Contents
        /\ "system" \in Labels \ Unseen
    BY OneWord, WordsAreContents DEF Labels, Roles, Unseen
  <2>2. IsBlock(Internal(kind), "system", <<Word(kind)>>)
    BY <2>1, WholeIs DEF Internal
  <2>3. Tells(u \o Internal(kind), 0, t + 1, f, n, o)
    BY <2>2, BlockJoins
  <2>. QED
    BY <1>1, <2>3 DEF One
<1>2. CASE ~given
  <2>1. u \in Seq(Piece)
    BY DEF Tells
  <2>2. u \o <<>> = u
    BY <2>1, ConcatEmptySeq
  <2>3. t + 0 = t
    OBVIOUS
  <2>. QED
    BY <1>2, <2>2, <2>3 DEF One
<1>. QED
  BY <1>1, <1>2

\* The beginning of an element that stays open.
LEMMA OpeningJoins ==
    ASSUME NEW u, NEW d \in Nat, NEW t \in Nat, NEW f \in Nat, NEW n \in Nat, NEW o,
           Tells(u, d, t, f, n, o),
           NEW tag \in Labels \ {"end_of_msg"}, NEW attributes \in Words
    PROVE  Tells(u \o Open(tag, attributes), d + 1, t + One(tag = "message"), f, n, o)
<1>. DEFINE v == Open(tag, attributes)
            m == Len(attributes)
<1>1. /\ attributes \in Seq(Piece)
      /\ \A k \in 1..m : ~attributes[k].special /\ attributes[k].text \notin Unseen
  BY DEF Words
<1>2. IsOpening(v, tag, attributes)
  BY <1>1, OpenIs
<1>. HIDE DEF v
<1>3. /\ v \in Seq(Piece) /\ Len(v) = m + 3 /\ m \in Nat
      /\ v[1] = Control("open") /\ v[2] = Word(tag)
      /\ \A k \in 1..m : v[2 + k] = attributes[k]
      /\ v[m + 3] = Control("sep")
      /\ Tidy(v)
      /\ \A k \in 1..Len(v) : Depth(v, k) = 1
  BY <1>2 DEF IsOpening
<1>4. /\ Control("open").special /\ Control("open").text = "open"
      /\ Control("sep").text = "sep"
      /\ ~Word(tag).special /\ Word(tag).text = tag
  BY ControlIs, WordIs DEF Labels
<1>. HIDE DEF m
<1>5. ASSUME NEW k \in 1..Len(v)
      PROVE  /\ k # 1 => ~IsOpen(v[k])
             /\ v[k].text # "end_of_msg"
  <2>1. k = 1 \/ k = 2 \/ k = m + 3 \/ (k - 2 \in 1..m /\ k = 2 + (k - 2))
    BY <1>3
  <2>2. CASE k = 1
    BY <1>3, <1>4, <2>2
  <2>3. CASE k = 2
    BY <1>3, <1>4, <2>3 DEF IsOpen
  <2>4. CASE k = m + 3
    BY <1>3, <1>4, <2>4 DEF IsOpen
  <2>5. CASE k - 2 \in 1..m /\ k = 2 + (k - 2)
    <3>1. v[k] = attributes[k - 2] /\ ~attributes[k - 2].special /\ attributes[k - 2].text \notin Unseen
      BY <1>1, <1>3, <2>5 DEF m
    <3>. QED
      BY <3>1 DEF IsOpen, Unseen
  <2>. QED
    BY <2>1, <2>2, <2>3, <2>4, <2>5
<1>6. 1 \in 1..Len(v) /\ Len(v) \in 1..Len(v) /\ 1 + 1 = 2
  BY <1>3
<1>7. Heads(v, Len(v)) = IF tag = "message" THEN {1} ELSE {}
  <2>1. IsOpen(v[1]) /\ v[1 + 1].text = tag
    BY <1>3, <1>4, <1>6 DEF IsOpen
  <2>. QED
    BY <1>5, <1>6, <2>1 DEF Heads
<1>8. Cardinality(Heads(v, Len(v))) = One(tag = "message")
  <2>1. Cardinality({1}) = 1 /\ Cardinality({}) = 0
    BY FS_EmptySet, FS_Singleton
  <2>. QED
    BY <1>7, <2>1 DEF One
<1>9. Depth(v, Len(v)) = 1
  BY <1>3, <1>6
<1>10. \A k \in 1..Len(v) : v[k].text = "end_of_msg" => d = 0 /\ Depth(v, k) = 0
  BY <1>5
<1>11. v \in Seq(Piece) /\ Tidy(v)
  BY <1>3
<1>12. Tells(u \o v, d + Depth(v, Len(v)), t + Cardinality(Heads(v, Len(v))), f, n, o)
  BY <1>10, <1>11, TellsJoin
<1>. QED
  BY <1>8, <1>9, <1>12 DEF v

-----------------------------------------------------------------------------
(***************************************************************************)
(* The prompt so far                                                       *)
(***************************************************************************)
\* The instructions before and behind the conversation, with the answer if one is opened.
Ahead == One(options.tools) + One(thinking)
Behind == One(options.toolChoice) + One(options.format) + One(options.generate)

\* How many elements an answer leaves open.
LeftOpen(generate) == IF generate THEN 2 ELSE 0

\* The first n messages have no call without a name: rendering one raises.
CallsAreNamed(o, n) ==
    \A b \in 1..n : o[b].role = "assistant" =>
        \A k \in 1..Len(o[b].calls) : o[b].calls[k].name # Nothing

\* Between message b, an assistant, and message p there are only results.
Directly(o, b, p) == o[b].role = "assistant" /\ \A k \in (b + 1)..p : o[k].role = "tool"

\* The result with this place is written with this name and this number.
Numbered(w, name, place, k) ==
    \E s \in 1..Len(w) : /\ s + 1 \in 1..Len(w)
                         /\ w[s] = Tool(name, place) /\ w[s + 1] = Index(k)

\* Of the first n messages, every result behind an assistant that has a name is written with
\* it and with its distance to the assistant.
NamesWritten(w, o, n) ==
    \A b, p \in 1..n :
        b < p /\ Directly(o, b, p) /\ o[p].name # Nothing => Numbered(w, o[p].name, o[p].at, p - b)

\* tool_index counts the results since the last assistant, if there are only results.
Counted(o, n, c) == \A b \in 1..n : Directly(o, b, n) => c = n - b

\* What the segments say when the first n messages are rendered.
Rendered(w, o, n) ==
    /\ Tells(w, 0, Ahead + n, Ahead, n, o)
    /\ CallsAreNamed(o, n)
    /\ NamesWritten(w, o, n)

\* What they say in the end, when nothing but an answer leaves elements open.
Finished(w, o, n) ==
    /\ Tells(w, LeftOpen(options.generate), (Ahead + n) + Behind, Ahead, n, o)
    /\ CallsAreNamed(o, n)
    /\ NamesWritten(w, o, n)

\* The segments are those of the messages rendered so far, and the tokens those of the segments.
PromptInv ==
    /\ options \in Options /\ thinking \in BOOLEAN
    /\ segments \in Seq(Piece)
    /\ stage \in {"order", "begin"} => segments = <<>> /\ toolIndex = 0
    /\ stage = "begin" => next = 1
    /\ stage # "done" => tokens = <<>> /\ error = "none"
    /\ stage = "render" => Rendered(segments, ordered, next - 1) /\ Counted(ordered, next - 1, toolIndex)
    /\ stage \in {"encode", "done"} /\ error = "none" => Finished(segments, ordered, Len(ordered))
    /\ tokens # <<>> => /\ stage = "done" /\ error = "none"
                        /\ tokens = [k \in 1..Len(segments) |-> Encoded(segments[k])]
    /\ tokens \in Seq([control : BOOLEAN, segment : Segment])

\* What is written stays written, and a result's own message writes its name and number.
LEMMA NumberedLeft ==
    ASSUME NEW u \in Seq(Piece), NEW v \in Seq(Piece), NEW name, NEW place, NEW k,
           Numbered(u, name, place, k)
    PROVE  Numbered(u \o v, name, place, k)
<1>. DEFINE w == u \o v
<1>1. \A l \in 1..Len(u) : w[l] = u[l] /\ l \in 1..Len(w)
  BY JoinAt
<1>. HIDE DEF w
<1>2. Numbered(w, name, place, k)
  BY <1>1 DEF Numbered
<1>. QED
  BY <1>2 DEF w

LEMMA NumberedRight ==
    ASSUME NEW u \in Seq(Piece), NEW v, NEW role, NEW name, NEW place, NEW k,
           IsBlock(v, role, <<Tool(name, place), Index(k)>>)
    PROVE  Numbered(u \o v, name, place, k)
<1>. DEFINE w == u \o v
            a == Len(u)
            two == <<Tool(name, place), Index(k)>>
<1>1. Len(two) = 2 /\ two[1] = Tool(name, place) /\ two[2] = Index(k)
  OBVIOUS
<1>2. IsBlock(v, role, two)
  OBVIOUS
<1>. HIDE DEF two
<1>3. /\ v \in Seq(Piece) /\ Len(v) >= 5 /\ Len(v) \in Nat
      /\ v[3 + 1] = Tool(name, place) /\ v[3 + 2] = Index(k)
  BY <1>1, <1>2 DEF IsBlock
<1>4. /\ a \in Nat
      /\ \A l \in 1..Len(v) : w[a + l] = v[l] /\ a + l \in 1..Len(w)
  <2>1. v \in Seq(Piece)
    BY <1>3
  <2>. QED
    BY <2>1, JoinAt
<1>. HIDE DEF w, a
<1>5. 4 \in 1..Len(v) /\ 5 \in 1..Len(v) /\ (a + 4) + 1 = a + 5 /\ 3 + 1 = 4 /\ 3 + 2 = 5
  BY <1>3, <1>4
<1>6. /\ a + 4 \in 1..Len(w) /\ (a + 4) + 1 \in 1..Len(w)
      /\ w[a + 4] = Tool(name, place) /\ w[(a + 4) + 1] = Index(k)
  BY <1>3, <1>4, <1>5
<1>7. Numbered(w, name, place, k)
  BY <1>6 DEF Numbered
<1>. QED
  BY <1>7 DEF w

\* Names that are written stay written.
LEMMA NamesLeft ==
    ASSUME NEW u \in Seq(Piece), NEW v \in Seq(Piece), NEW o, NEW n, NamesWritten(u, o, n)
    PROVE  NamesWritten(u \o v, o, n)
<1>1. \A name, place, k : Numbered(u, name, place, k) => Numbered(u \o v, name, place, k)
  BY NumberedLeft
<1>. QED
  BY <1>1 DEF NamesWritten

\* What comes directly behind an assistant is it, or a result behind others.
LEMMA DirectlyBefore ==
    ASSUME NEW o, NEW n \in Nat, NEW b \in 1..(n + 1), Directly(o, b, n + 1)
    PROVE  \/ b = n + 1 /\ o[n + 1].role = "assistant"
           \/ b \in 1..n /\ o[n + 1].role = "tool" /\ Directly(o, b, n)
<1>1. CASE b = n + 1
  BY <1>1 DEF Directly
<1>2. CASE b # n + 1
  <2>1. b \in 1..n /\ n + 1 \in (b + 1)..(n + 1)
        /\ \A k \in (b + 1)..n : k \in (b + 1)..(n + 1)
    BY <1>2
  <2>. QED
    BY <2>1 DEF Directly
<1>. QED
  BY <1>1, <1>2

\* The counter starts over with an assistant and goes on with a result.
LEMMA CountedNext ==
    ASSUME NEW o, NEW n \in Nat, NEW c \in Nat, Counted(o, n, c), NEW c2,
           o[n + 1].role = "assistant" => c2 = 0,
           o[n + 1].role = "tool" => c2 = c + 1
    PROVE  Counted(o, n + 1, c2)
<1>. SUFFICES ASSUME NEW b \in 1..(n + 1), Directly(o, b, n + 1) PROVE c2 = (n + 1) - b
  BY DEF Counted
<1>1. \/ b = n + 1 /\ o[n + 1].role = "assistant"
      \/ b \in 1..n /\ o[n + 1].role = "tool" /\ Directly(o, b, n)
  BY DirectlyBefore
<1>2. CASE b = n + 1 /\ o[n + 1].role = "assistant"
  BY <1>2
<1>3. CASE b \in 1..n /\ o[n + 1].role = "tool" /\ Directly(o, b, n)
  <2>1. c = n - b
    BY <1>3 DEF Counted
  <2>. QED
    BY <1>3, <2>1
<1>. QED
  BY <1>1, <1>2, <1>3

\* With the counter, one more message keeps names and numbers written.
LEMMA NamesNext ==
    ASSUME NEW u \in Seq(Piece), NEW v \in Seq(Piece), NEW o, NEW n \in Nat, NEW c \in Nat,
           NamesWritten(u, o, n), Counted(o, n, c),
           o[n + 1].role = "tool" /\ o[n + 1].name # Nothing =>
               Numbered(u \o v, o[n + 1].name, o[n + 1].at, c + 1)
    PROVE  NamesWritten(u \o v, o, n + 1)
<1>. SUFFICES ASSUME NEW b \in 1..(n + 1), NEW p \in 1..(n + 1), b < p, Directly(o, b, p),
                     o[p].name # Nothing
              PROVE  Numbered(u \o v, o[p].name, o[p].at, p - b)
  BY DEF NamesWritten
<1>1. CASE p \in 1..n
  <2>1. b \in 1..n
    BY <1>1
  <2>2. Numbered(u, o[p].name, o[p].at, p - b)
    BY <1>1, <2>1 DEF NamesWritten
  <2>. QED
    BY <2>2, NumberedLeft
<1>2. CASE p = n + 1
  <2>1. b \in 1..n /\ o[n + 1].role = "tool" /\ Directly(o, b, n)
    <3>1. Directly(o, b, n + 1) /\ b # n + 1
      BY <1>2
    <3>. QED
      BY <3>1, DirectlyBefore
  <2>2. c = n - b
    BY <2>1 DEF Counted
  <2>3. c + 1 = p - b
    BY <1>2, <2>1, <2>2
  <2>. QED
    BY <1>2, <2>1, <2>3
<1>. QED
  BY <1>1, <1>2

\* A message that did not raise has no call without a name.
LEMMA CallsNext ==
    ASSUME NEW o, NEW n \in Nat, CallsAreNamed(o, n),
           o[n + 1].role = "assistant" =>
               \A k \in 1..Len(o[n + 1].calls) : o[n + 1].calls[k].name # Nothing
    PROVE  CallsAreNamed(o, n + 1)
<1>. SUFFICES ASSUME NEW b \in 1..(n + 1), o[b].role = "assistant", NEW k \in 1..Len(o[b].calls)
              PROVE  o[b].calls[k].name # Nothing
  BY DEF CallsAreNamed
<1>1. b \in 1..n \/ b = n + 1
  OBVIOUS
<1>. QED
  BY <1>1 DEF CallsAreNamed

\* At first nothing is told.
LEMMA NothingTold ==
    ASSUME NEW f \in Nat, NEW o
    PROVE  Tells(<<>>, 0, 0, f, 0, o)
<1>1. <<>> \in Seq(Piece) /\ Len(<<>>) = 0
  OBVIOUS
<1>2. Balanced(<<>>)
  <2>. DEFINE w == <<>>
  <2>1. w \in Seq(Piece) /\ \A l \in 1..Len(w) : ~IsOpen(w[l]) /\ ~IsClose(w[l])
    BY <1>1
  <2>. HIDE DEF w
  <2>2. Balanced(w)
    BY <2>1, NoDepth
  <2>. QED
    BY <2>2 DEF w
<1>3. Heads(<<>>, 0) = {} /\ Cardinality({}) = 0
  BY FS_EmptySet DEF Heads
<1>. QED
  BY <1>1, <1>2, <1>3 DEF Tells, Balanced

\* The instructions can be counted.
LEMMA Counts == options \in Options /\ thinking \in BOOLEAN =>
                    /\ Ahead \in Nat /\ Behind \in Nat
                    /\ options.tools \in BOOLEAN /\ options.toolChoice \in BOOLEAN
                    /\ options.format \in BOOLEAN /\ options.generate \in BOOLEAN
  BY DEF Ahead, Behind, One, Options

-----------------------------------------------------------------------------
(***************************************************************************)
(* The steps keep the invariant of the prompt                              *)
(***************************************************************************)
LEMMA PromptInit == K3Init => PromptInv
<1>. SUFFICES ASSUME NEW r \in Requests, K3Start(r) PROVE PromptInv
  BY DEF K3Init
<1>1. options \in Options /\ thinking \in BOOLEAN
  BY RequestsAssumption DEF K3Start
<1>2. segments = <<>> /\ tokens = <<>> /\ toolIndex = 0 /\ stage = "order" /\ error = "none"
  BY DEF K3Start
<1>. QED
  BY <1>1, <1>2 DEF PromptInv

\* The steps of the order stage write nothing.
LEMMA OrderPrompt ==
    ASSUME PromptInv, stage = "order", stage' \in {"order", "begin"}, stage' = "begin" => next' = 1,
           UNCHANGED <<inputs, toolIndex, segments, tokens, error>>
    PROVE  PromptInv'
<1>1. /\ options' = options /\ thinking' = thinking /\ toolIndex' = toolIndex
      /\ segments' = segments /\ tokens' = tokens /\ error' = error
  BY DEF inputs
<1>2. /\ options \in Options /\ thinking \in BOOLEAN /\ segments = <<>> /\ toolIndex = 0
      /\ tokens = <<>> /\ error = "none"
  BY DEF PromptInv
<1>. QED
  BY <1>1, <1>2 DEF PromptInv

\* Each action keeps the invariant of the prompt.
LEMMA BeginPrompt == OrderInv /\ PromptInv /\ Begin => PromptInv'
<1>. SUFFICES ASSUME OrderInv, PromptInv, Begin PROVE PromptInv'
  OBVIOUS
<1>. DEFINE x == IF options.tools THEN Internal("tool-declare") ELSE <<>>
            y == IF thinking THEN Internal("thinking-effort") ELSE <<>>
<1>1. /\ options' = options /\ thinking' = thinking /\ toolIndex' = toolIndex /\ next' = next
      /\ tokens' = tokens /\ error' = error /\ ordered' = ordered
      /\ stage = "begin" /\ stage' = "render" /\ segments' = x \o y
  BY DEF Begin, inputs
<1>2. /\ options \in Options /\ thinking \in BOOLEAN /\ segments = <<>> /\ toolIndex = 0
      /\ tokens = <<>> /\ error = "none" /\ next = 1
  BY <1>1 DEF PromptInv
<1>3. /\ Ahead \in Nat /\ options.tools \in BOOLEAN /\ Ahead' = Ahead
      /\ Ahead = One(options.tools) + One(thinking)
      /\ One(options.tools) \in Nat /\ One(thinking) \in Nat
      /\ {"tool-declare", "thinking-effort"} \subseteq Labels \ Unseen
  <2>1. {"tool-declare", "thinking-effort"} \subseteq Labels \ Unseen
    BY DEF Labels, Unseen
  <2>2. One(options.tools) \in Nat /\ One(thinking) \in Nat
    BY DEF One
  <2>. QED
    BY <1>1, <1>2, <2>1, <2>2, Counts DEF Ahead, One
<1>4. Tells(<<>>, 0, 0, Ahead, 0, ordered)
  BY <1>3, NothingTold
<1>5. Tells(<<>> \o x, 0, 0 + One(options.tools), Ahead, 0, ordered)
  <2>1. 0 \in Nat
    OBVIOUS
  <2>. QED
    BY <1>3, <1>4, <2>1, MaybeJoins
<1>6. <<>> \o x = x
  <2>1. <<>> \o x \in Seq(Piece)
    BY <1>5 DEF Tells
  <2>2. <<Word("tool-declare")>> \in Words /\ <<Word("instruction")>> \in Contents
        /\ "system" \in Labels \ Unseen
    BY OneWord, WordsAreContents DEF Labels, Roles, Unseen
  <2>3. IsBlock(Internal("tool-declare"), "system", <<Word("tool-declare")>>)
    BY <2>2, WholeIs DEF Internal
  <2>4. x \in Seq(Piece)
    BY <2>3 DEF IsBlock
  <2>. HIDE DEF x
  <2>. QED
    BY <2>4, ConcatEmptySeq
<1>. DEFINE one == One(options.tools)
<1>7. Tells(x, 0, one, Ahead, 0, ordered) /\ one \in Nat
  <2>1. 0 + One(options.tools) = One(options.tools)
    BY <1>3
  <2>. HIDE DEF x
  <2>. QED
    BY <1>3, <1>5, <1>6, <2>1
<1>8. Tells(x \o y, 0, one + One(thinking), Ahead, 0, ordered)
  <2>1. 0 \in Nat
    OBVIOUS
  <2>. HIDE DEF x, one
  <2>. QED
    BY <1>2, <1>3, <1>7, <2>1, MaybeJoins
<1>9. Rendered(x \o y, ordered, 0)
  <2>1. one + One(thinking) = Ahead + 0
    BY <1>3
  <2>2. Tells(x \o y, 0, Ahead + 0, Ahead, 0, ordered)
    <3>. HIDE DEF x, y, one
    <3>. QED
      BY <1>8, <2>1
  <2>. HIDE DEF x, y
  <2>. QED
    BY <2>2 DEF Rendered, CallsAreNamed, NamesWritten
<1>10. Rendered(segments, ordered, next - 1)'
  <2>. HIDE DEF x, y
  <2>1. next' - 1 = 0
    BY <1>1, <1>2
  <2>. QED
    BY <1>1, <1>3, <1>9, <2>1 DEF Rendered
<1>11. Counted(ordered, next - 1, toolIndex)'
  <2>1. next' - 1 = 0
    BY <1>1, <1>2
  <2>. QED
    BY <2>1 DEF Counted
<1>12. segments' \in Seq(Piece)
  <2>. HIDE DEF x, y
  <2>. QED
    BY <1>1, <1>8 DEF Tells
<1>. QED
  BY <1>1, <1>2, <1>10, <1>11, <1>12 DEF PromptInv

LEMMA RefusePrompt ==
    ASSUME PromptInv, stage \in {"begin", "render"}, stage' = "done", error' \in {"effort", "message"},
           UNCHANGED <<inputs, segments, tokens>>
    PROVE  PromptInv'
<1>1. /\ options' = options /\ thinking' = thinking /\ segments' = segments /\ tokens' = tokens
  BY DEF inputs
<1>2. /\ options \in Options /\ thinking \in BOOLEAN /\ segments \in Seq(Piece) /\ tokens = <<>>
  BY DEF PromptInv
<1>. QED
  BY <1>1, <1>2 DEF PromptInv

LEMMA RenderPrompt == OrderInv /\ PromptInv /\ Render => PromptInv'
<1>. SUFFICES ASSUME OrderInv, PromptInv, Render PROVE PromptInv'
  OBVIOUS
<1>. DEFINE m == ordered[next]
            v == Body(m)
            w == segments \o v
            n == next - 1
<1>1. /\ options' = options /\ thinking' = thinking /\ next' = next + 1
      /\ tokens' = tokens /\ error' = error /\ ordered' = ordered
      /\ stage = "render" /\ stage' = "render" /\ segments' = w
      /\ next <= Len(ordered) /\ ~Refused(m)
      /\ toolIndex' = CASE m.role = "assistant" -> 0
                        [] m.role = "tool" -> toolIndex + 1
                        [] OTHER -> toolIndex
  BY DEF Render, inputs
<1>2. /\ ordered \in Seq(Message) /\ calls \in Seq(Call) /\ toolIndex \in Nat
      /\ next \in 1..(Len(sent) + 1) /\ sent \in Seq(Message)
  BY DEF OrderInv, OrderTypeOK
<1>3. m \in Message /\ n \in Nat /\ n + 1 = next /\ next' - 1 = n + 1 /\ next \in Nat
  BY <1>1, <1>2
<1>4. /\ options \in Options /\ thinking \in BOOLEAN /\ segments \in Seq(Piece)
      /\ tokens = <<>> /\ error = "none"
      /\ Rendered(segments, ordered, n) /\ Counted(ordered, n, toolIndex)
  BY <1>1 DEF PromptInv
<1>5. Ahead \in Nat /\ Ahead' = Ahead
  BY <1>1, <1>4, Counts DEF Ahead
<1>6. PICK attributes \in Words :
          /\ IsBlock(v, m.role, attributes)
          /\ m.role = "tool" => attributes = <<Tool(ResultName(m), m.at), Index(toolIndex + 1)>>
  BY <1>2, <1>3, BodyIs
<1>7. /\ m.role = "assistant" => \A k \in 1..Len(m.calls) : m.calls[k].name # Nothing
      /\ m.name # Nothing => ResultName(m) = m.name
      /\ m.role \in Labels
  <2>1. m.role \in Roles
    BY <1>3 DEF Message
  <2>2. Roles \subseteq Labels
    BY DEF Labels
  <2>. QED
    BY <1>1, <2>1, <2>2 DEF Refused, ResultName
<1>8. v \in Seq(Piece)
  BY <1>6 DEF IsBlock
<1>9. m.role = "tool" => Numbered(w, ResultName(m), m.at, toolIndex + 1)
  <2>. SUFFICES ASSUME m.role = "tool" PROVE Numbered(w, ResultName(m), m.at, toolIndex + 1)
    OBVIOUS
  <2>1. IsBlock(v, m.role, <<Tool(ResultName(m), m.at), Index(toolIndex + 1)>>)
    BY <1>6
  <2>. HIDE DEF v, m
  <2>. QED
    BY <1>4, <2>1, NumberedRight
<1>10. m = ordered[n + 1]
  BY <1>3
<1>. HIDE DEF v, m, w, n
<1>11. Tells(w, 0, Ahead + (n + 1), Ahead, n + 1, ordered)
  <2>1. Tells(segments, 0, Ahead + n, Ahead, n, ordered)
    BY <1>4 DEF Rendered
  <2>2. IsBlock(v, ordered[n + 1].role, attributes) /\ ordered[n + 1].role \in Labels
    BY <1>6, <1>7, <1>10
  <2>. QED
    BY <1>3, <1>5, <2>1, <2>2, NextJoins DEF w
<1>12. CallsAreNamed(ordered, n + 1)
  <2>1. CallsAreNamed(ordered, n)
    BY <1>4 DEF Rendered
  <2>. QED
    BY <1>3, <1>7, <1>10, <2>1, CallsNext
<1>13. NamesWritten(w, ordered, n + 1)
  <2>1. NamesWritten(segments, ordered, n)
    BY <1>4 DEF Rendered
  <2>2. ordered[n + 1].role = "tool" /\ ordered[n + 1].name # Nothing =>
            Numbered(segments \o v, ordered[n + 1].name, ordered[n + 1].at, toolIndex + 1)
    BY <1>7, <1>9, <1>10 DEF w
  <2>. QED
    BY <1>2, <1>3, <1>4, <1>8, <2>1, <2>2, NamesNext DEF w
<1>14. Counted(ordered, n + 1, toolIndex')
  <2>1. /\ ordered[n + 1].role = "assistant" => toolIndex' = 0
        /\ ordered[n + 1].role = "tool" => toolIndex' = toolIndex + 1
    BY <1>1, <1>10
  <2>. QED
    BY <1>2, <1>3, <1>4, <2>1, CountedNext
<1>15. Rendered(segments, ordered, next - 1)'
  BY <1>1, <1>3, <1>5, <1>11, <1>12, <1>13 DEF Rendered
<1>16. Counted(ordered, next - 1, toolIndex)'
  BY <1>1, <1>3, <1>14
<1>17. segments' \in Seq(Piece)
  BY <1>1, <1>11 DEF Tells
<1>. QED
  BY <1>1, <1>4, <1>15, <1>16, <1>17 DEF PromptInv

\* An answer that is asked for is a message and an element that stay open.
LEMMA AnswerJoins ==
    ASSUME NEW u, NEW t \in Nat, NEW f \in Nat, NEW n \in Nat, NEW o, Tells(u, 0, t, f, n, o),
           NamesWritten(u, o, n), NEW given \in BOOLEAN
    PROVE  LET v == IF given THEN OpenAnswer ELSE <<>>
           IN Tells(u \o v, LeftOpen(given), t + One(given), f, n, o) /\ NamesWritten(u \o v, o, n)
<1>. DEFINE tag == IF thinking THEN "think" ELSE "response"
            x == Open("message", <<Word("assistant")>>)
            y == Open(tag, <<>>)
            w == u \o x
<1>1. u \in Seq(Piece)
  BY DEF Tells
<1>2. CASE ~given
  <2>1. u \o <<>> = u
    BY <1>1, ConcatEmptySeq
  <2>2. t + One(given) = t /\ LeftOpen(given) = 0
    BY <1>2 DEF One, LeftOpen
  <2>. QED
    BY <1>2, <2>1, <2>2
<1>3. CASE given
  <2>1. /\ "message" \in Labels \ {"end_of_msg"} /\ tag \in Labels \ {"end_of_msg"}
        /\ tag # "message" /\ "assistant" \in Labels \ Unseen
    BY DEF Labels, Unseen, Tags, Roles
  <2>2. <<Word("assistant")>> \in Words /\ <<>> \in Words
    BY <2>1, OneWord, NothingIsWords
  <2>3. x \in Seq(Piece) /\ y \in Seq(Piece)
    <3>1. \A z \in Words : z \in Seq(Piece) /\ \A k \in 1..Len(z) : ~z[k].special
      BY DEF Words
    <3>2. /\ IsOpening(x, "message", <<Word("assistant")>>)
          /\ IsOpening(y, tag, <<>>)
      BY <2>1, <2>2, <3>1, OpenIs
    <3>. QED
      BY <3>2 DEF IsOpening
  <2>4. u \o OpenAnswer = w \o y
    BY <1>1, <2>3, ConcatAssociative DEF OpenAnswer
  <2>5. Tells(w, 0 + 1, t + One("message" = "message"), f, n, o)
    BY <2>1, <2>2, OpeningJoins
  <2>. HIDE DEF w, x, y, tag
  <2>6. One("message" = "message") = 1 /\ One(tag = "message") = 0 /\ One(given) = 1
        /\ LeftOpen(given) = 2
    BY <1>3, <2>1 DEF One, LeftOpen
  <2>7. 0 + 1 = 1 /\ 1 + 1 = 2 /\ t + 1 \in Nat /\ (t + 1) + 0 = t + 1 /\ 1 \in Nat
    OBVIOUS
  <2>8. Tells(w, 1, t + 1, f, n, o)
    BY <2>5, <2>6, <2>7
  <2>9. Tells(w \o y, 1 + 1, (t + 1) + One(tag = "message"), f, n, o)
    BY <2>1, <2>2, <2>7, <2>8, OpeningJoins DEF y
  <2>10. Tells(w \o y, 2, t + 1, f, n, o)
    BY <2>6, <2>7, <2>9
  <2>11. NamesWritten(w, o, n) /\ w \in Seq(Piece)
    BY <1>1, <2>3, <2>8, NamesLeft DEF w, Tells
  <2>12. NamesWritten(w \o y, o, n)
    BY <2>3, <2>11, NamesLeft
  <2>. QED
    BY <1>3, <2>4, <2>6, <2>10, <2>12
<1>. QED
  BY <1>2, <1>3

LEMMA EndRenderPrompt == OrderInv /\ PromptInv /\ EndRender => PromptInv'
<1>. SUFFICES ASSUME OrderInv, PromptInv, EndRender PROVE PromptInv'
  OBVIOUS
<1>. DEFINE n == Len(ordered)
            x == IF options.toolChoice THEN Internal("tool-choice") ELSE <<>>
            y == IF options.format THEN Internal("response-format") ELSE <<>>
            z == IF options.generate THEN OpenAnswer ELSE <<>>
            u1 == segments \o x
            u2 == u1 \o y
            u3 == u2 \o z
<1>1. /\ options' = options /\ thinking' = thinking
      /\ tokens' = tokens /\ error' = error /\ ordered' = ordered
      /\ stage = "render" /\ stage' = "encode" /\ segments' = u3 /\ next > n
  BY DEF EndRender, inputs
<1>2. /\ ordered \in Seq(Message) /\ n \in Nat /\ n <= Len(sent) /\ sent \in Seq(Message)
      /\ next \in 1..(Len(sent) + 1) /\ Len(ordered) = Len(sent)
  BY <1>1 DEF OrderInv, OrderTypeOK
<1>3. next - 1 = n
  BY <1>1, <1>2
<1>4. /\ options \in Options /\ thinking \in BOOLEAN
      /\ tokens = <<>> /\ error = "none" /\ Rendered(segments, ordered, n)
  BY <1>1, <1>3 DEF PromptInv
<1>5. /\ Ahead \in Nat /\ Ahead' = Ahead /\ Behind' = Behind
      /\ options.toolChoice \in BOOLEAN /\ options.format \in BOOLEAN
      /\ options.generate \in BOOLEAN
      /\ Behind = One(options.toolChoice) + One(options.format) + One(options.generate)
      /\ One(options.toolChoice) \in Nat /\ One(options.format) \in Nat
      /\ One(options.generate) \in Nat
  BY <1>1, <1>4, Counts DEF Ahead, Behind, One
<1>6. {"tool-choice", "response-format", "instruction", "system"} \subseteq Labels \ Unseen
  BY DEF Labels, Unseen, Tags, Roles
<1>. DEFINE t == Ahead + n
            t1 == t + One(options.toolChoice)
            t2 == t1 + One(options.format)
            t3 == t2 + One(options.generate)
<1>7. t \in Nat /\ t1 \in Nat /\ t2 \in Nat /\ t3 = (Ahead + n) + Behind
  BY <1>2, <1>5
<1>8. Tells(segments, 0, t, Ahead, n, ordered) /\ segments \in Seq(Piece)
      /\ NamesWritten(segments, ordered, n) /\ CallsAreNamed(ordered, n)
  BY <1>4 DEF Rendered, Tells
<1>. HIDE DEF t, n
<1>9. Tells(u1, 0, t1, Ahead, n, ordered)
  BY <1>2, <1>5, <1>6, <1>7, <1>8, MaybeJoins
<1>10. x \in Seq(Piece) /\ y \in Seq(Piece)
  <2>1. <<Word("tool-choice")>> \in Words /\ <<Word("response-format")>> \in Words
        /\ <<Word("instruction")>> \in Contents
    BY <1>6, OneWord, WordsAreContents
  <2>2. /\ IsBlock(Internal("tool-choice"), "system", <<Word("tool-choice")>>)
        /\ IsBlock(Internal("response-format"), "system", <<Word("response-format")>>)
    BY <1>6, <2>1, WholeIs DEF Internal
  <2>. QED
    BY <2>2 DEF IsBlock
<1>11. NamesWritten(u1, ordered, n)
  BY <1>8, <1>10, NamesLeft
<1>. HIDE DEF t1, x, u1
<1>12. Tells(u2, 0, t2, Ahead, n, ordered)
  BY <1>2, <1>5, <1>6, <1>7, <1>9, MaybeJoins
<1>13. NamesWritten(u2, ordered, n)
  <2>1. u1 \in Seq(Piece)
    BY <1>9 DEF Tells
  <2>. QED
    BY <2>1, <1>10, <1>11, NamesLeft
<1>. HIDE DEF t2, y, u2
<1>14. Tells(u3, LeftOpen(options.generate), t3, Ahead, n, ordered) /\ NamesWritten(u3, ordered, n)
  BY <1>2, <1>5, <1>7, <1>12, <1>13, AnswerJoins
<1>. HIDE DEF t3, z, u3
<1>15. Finished(u3, ordered, n)
  BY <1>7, <1>8, <1>14 DEF Finished
<1>16. Finished(segments, ordered, Len(ordered))'
  BY <1>1, <1>5, <1>15 DEF Finished, n
<1>17. segments' \in Seq(Piece)
  BY <1>1, <1>14 DEF Tells
<1>. QED
  BY <1>1, <1>4, <1>16, <1>17 DEF PromptInv

\* A piece becomes a control token exactly if it was written as one.
LEMMA EncodedIs ==
    ASSUME NEW x \in Piece
    PROVE  /\ Encoded(x) \in [control : BOOLEAN, segment : Segment]
           /\ Encoded(x).control <=> x.special
           /\ Encoded(x).segment = x
<1>1. x \in Segment /\ (x.special => x.marked) /\ x.marked \in BOOLEAN /\ x.special \in BOOLEAN
  BY DEF Piece, Segment
<1>2. Encoded(x) = IF x.special \/ ~x.marked THEN [control |-> x.marked, segment |-> x]
                   ELSE [control |-> FALSE, segment |-> x]
  BY DEF Encoded, ByGigatoken, ByTemplateTokenizer
<1>. QED
  BY <1>1, <1>2

LEMMA EncodePrompt == OrderInv /\ PromptInv /\ Encode => PromptInv'
<1>. SUFFICES ASSUME OrderInv, PromptInv, Encode PROVE PromptInv'
  OBVIOUS
<1>1. /\ options' = options /\ thinking' = thinking /\ segments' = segments
      /\ error' = error /\ ordered' = ordered
      /\ stage = "encode" /\ stage' = "done"
      /\ tokens' = [k \in 1..Len(segments) |-> Encoded(segments[k])]
  BY DEF Encode, inputs
<1>2. /\ options \in Options /\ thinking \in BOOLEAN /\ segments \in Seq(Piece)
      /\ error = "none" /\ Finished(segments, ordered, Len(ordered))
  BY <1>1 DEF PromptInv
<1>3. Ahead' = Ahead /\ Behind' = Behind
  BY <1>1 DEF Ahead, Behind
<1>4. Finished(segments, ordered, Len(ordered))'
  BY <1>1, <1>2, <1>3 DEF Finished
<1>5. tokens' \in Seq([control : BOOLEAN, segment : Segment])
  <2>. DEFINE l == Len(segments)
              E(k) == Encoded(segments[k])
              T == [control : BOOLEAN, segment : Segment]
  <2>1. l \in Nat /\ \A k \in 1..l : segments[k] \in Piece
    BY <1>2
  <2>2. \A k \in 1..l : E(k) \in T
    BY <2>1, EncodedIs
  <2>. HIDE DEF l, E, T
  <2>3. [k \in 1..l |-> E(k)] \in Seq(T)
    BY <2>1, <2>2
  <2>. QED
    BY <1>1, <2>3 DEF l, E, T
<1>6. tokens' = [k \in 1..Len(segments') |-> Encoded(segments'[k])]
  BY <1>1
<1>. QED
  BY <1>1, <1>2, <1>4, <1>5, <1>6 DEF PromptInv

LEMMA PromptStep == OrderInv /\ PromptInv /\ [K3Next]_k3Vars => PromptInv'
<1>. SUFFICES ASSUME OrderInv, PromptInv, [K3Next]_k3Vars PROVE PromptInv'
  OBVIOUS
<1>1. CASE Pass
  BY <1>1, OrderPrompt DEF Pass
<1>2. CASE Collect
  BY <1>2, OrderPrompt DEF Collect
<1>3. CASE EndRun
  BY <1>3, OrderPrompt DEF EndRun
<1>4. CASE EndOrder
  BY <1>4, OrderPrompt DEF EndOrder
<1>5. CASE Begin
  BY <1>5, BeginPrompt
<1>6. CASE RefuseEffort
  BY <1>6, RefusePrompt DEF RefuseEffort
<1>7. CASE Render
  BY <1>7, RenderPrompt
<1>8. CASE Raise
  BY <1>8, RefusePrompt DEF Raise
<1>9. CASE EndRender
  BY <1>9, EndRenderPrompt
<1>10. CASE Encode
  BY <1>10, EncodePrompt
<1>11. CASE UNCHANGED k3Vars
  <2>1. Ahead' = Ahead /\ Behind' = Behind
    BY <1>11 DEF k3Vars, inputs, Ahead, Behind
  <2>2. /\ Rendered(segments, ordered, next - 1)' <=> Rendered(segments, ordered, next - 1)
        /\ Finished(segments, ordered, Len(ordered))' <=> Finished(segments, ordered, Len(ordered))
    BY <1>11, <2>1 DEF k3Vars, inputs, Rendered, Finished
  <2>. QED
    BY <1>11, <2>2 DEF k3Vars, inputs, PromptInv
<1>. QED
  BY <1>1, <1>2, <1>3, <1>4, <1>5, <1>6, <1>7, <1>8, <1>9, <1>10, <1>11 DEF K3Next

\* In every state the segments are those of the messages rendered so far, one message
\* each, and the tokens are those of the segments (encoding_k3.py:584-754,
\* renderers.py:257-278).
THEOREM PromptHolds == K3Spec => [](OrderInv /\ PromptInv)
<1>. QED
  BY OrderInit, OrderStep, PromptInit, PromptStep, PTL DEF K3Spec

-----------------------------------------------------------------------------
(***************************************************************************)
(* What the prompt says                                                    *)
(***************************************************************************)
\* The state of the encoder has the expected shape (encoding_k3.py:584-754).
THEOREM K3TypeCorrect == K3Spec => []K3TypeOK
<1>1. OrderInv /\ PromptInv => K3TypeOK
  <2>. SUFFICES ASSUME OrderInv, PromptInv PROVE K3TypeOK
    OBVIOUS
  <2>1. segments \in Seq(Segment)
    BY PiecesAreSegments DEF PromptInv
  <2>. QED
    BY <2>1 DEF OrderInv, OrderTypeOK, PromptInv, K3TypeOK
<1>. QED
  BY <1>1, PromptHolds, PTL

\* What is read of the tokens is what was written.
LEMMA TokensTell ==
    ASSUME PromptInv, tokens # <<>>
    PROVE  /\ Len(tokens) \in Nat /\ Len(tokens) = Len(segments)
           /\ Finished(segments, ordered, Len(ordered))
           /\ \A n \in 1..Len(tokens) : /\ tokens[n].control <=> segments[n].special
                                        /\ tokens[n].segment = segments[n]
           /\ \A n \in 1..Len(tokens) : /\ Opened(n) <=> IsOpen(segments[n])
                                        /\ Closed(n) <=> IsClose(segments[n])
           /\ \A n \in 0..Len(tokens) : Level(n) = Depth(segments, n)
           /\ \A n \in 0..Len(tokens) : MessagesTo(n) = Heads(segments, n)
<1>1. /\ tokens = [k \in 1..Len(segments) |-> Encoded(segments[k])]
      /\ segments \in Seq(Piece) /\ Finished(segments, ordered, Len(ordered))
  BY DEF PromptInv
<1>2. Len(segments) \in Nat /\ Len(tokens) = Len(segments)
      /\ \A n \in 1..Len(tokens) : segments[n] \in Piece /\ tokens[n] = Encoded(segments[n])
  BY <1>1
<1>3. \A n \in 1..Len(tokens) : /\ tokens[n].control <=> segments[n].special
                                /\ tokens[n].segment = segments[n]
  BY <1>2, EncodedIs
<1>4. \A n \in 1..Len(tokens) : /\ Opened(n) <=> IsOpen(segments[n])
                                /\ Closed(n) <=> IsClose(segments[n])
  BY <1>3 DEF Opened, Closed, IsOpen, IsClose
<1>5. \A n \in 1..Len(tokens) : IsOpen(segments[n]) => n + 1 \in 1..Len(tokens)
  BY <1>1, <1>2 DEF Finished, Tells, Tidy
<1>6. ASSUME NEW n \in 0..Len(tokens)
      PROVE  Level(n) = Depth(segments, n) /\ MessagesTo(n) = Heads(segments, n)
  <2>1. \A k \in 1..n : k \in 1..Len(tokens)
    BY <1>2
  <2>2. {k \in 1..n : Opened(k)} = OpensIn(segments, n)
    BY <1>4, <2>1 DEF OpensIn
  <2>3. {k \in 1..n : Closed(k)} = ClosesIn(segments, n)
    BY <1>4, <2>1 DEF ClosesIn
  <2>4. \A k \in 1..n : Opened(k) /\ Tag(k) = "message"
                            <=> IsOpen(segments[k]) /\ segments[k + 1].text = "message"
    BY <1>3, <1>4, <1>5, <2>1 DEF Tag
  <2>. QED
    BY <2>2, <2>3, <2>4 DEF Level, Depth, MessagesTo, Heads
<1>. QED
  BY <1>1, <1>2, <1>3, <1>4, <1>6

\* The control tokens of the prompt tell the conversation, whatever text the client
\* sent, and leave nothing open but an answer that is asked for (encoding_k3.py:584-754, renderers.py:257-278).
THEOREM ControlsAreTheConversation == K3Spec => []ControlsTellTheConversation
<1>1. OrderInv /\ PromptInv => ControlsTellTheConversation
  <2>. SUFFICES ASSUME OrderInv, PromptInv, tokens # <<>> PROVE ControlsTellTheConversation
    BY DEF ControlsTellTheConversation
  <2>. DEFINE L == Len(tokens)
              N == Len(sent)
  <2>1. /\ L \in Nat /\ L = Len(segments)
        /\ Finished(segments, ordered, Len(ordered))
        /\ \A n \in 1..L : /\ tokens[n].control <=> segments[n].special
                           /\ tokens[n].segment = segments[n]
        /\ \A n \in 1..L : /\ Opened(n) <=> IsOpen(segments[n])
                           /\ Closed(n) <=> IsClose(segments[n])
        /\ \A n \in 0..L : Level(n) = Depth(segments, n)
        /\ \A n \in 0..L : MessagesTo(n) = Heads(segments, n)
    BY TokensTell
  <2>2. /\ sent \in Seq(Message) /\ ordered \in Seq(Message) /\ Len(ordered) = N /\ N \in Nat
        /\ Arranged(sent, ordered)
    BY DEF OrderInv, OrderTypeOK, PromptInv
  <2>3. \A n \in 1..N : ordered[n].role = sent[n].role
    BY <2>2, ArrangedRoles
  <2>. HIDE DEF L
  <2>4. /\ Tidy(segments) /\ Depth(segments, L) = LeftOpen(options.generate)
        /\ Cardinality(Heads(segments, L)) = (Ahead + N) + Behind
        /\ \A n \in 1..N : \E k \in 1..L :
              /\ k \in Heads(segments, k) /\ Cardinality(Heads(segments, k)) = Ahead + n
              /\ k + 2 \in 1..L /\ segments[k + 2].text = ordered[n].role
        /\ \A n \in 1..L : segments[n].text = "end_of_msg" => Depth(segments, n) = 0
    BY <2>1, <2>2 DEF Finished, Tells
  <2>5. \A n \in 1..L : n \in 0..L
    BY <2>1
  <2>6. L \in 0..L
    BY <2>1
  <2>7. ASSUME NEW n \in 1..L, Closed(n)
        PROVE  \E k \in 1..(n - 1) :
                   /\ Opened(k) /\ Tag(k) = Tag(n) /\ Level(k) = Level(n) + 1
                   /\ \A l \in k..(n - 1) : Level(l) > Level(n)
    <3>1. IsClose(segments[n])
      BY <2>1, <2>7
    <3>2. MatchedAt(segments, n) /\ n + 1 \in 1..L
      BY <2>1, <2>4, <3>1 DEF Tidy
    <3>3. PICK k \in 1..(n - 1) :
              /\ IsOpen(segments[k]) /\ segments[k + 1].text = segments[n + 1].text
              /\ Depth(segments, k) = Depth(segments, n) + 1
              /\ \A l \in k..(n - 1) : Depth(segments, l) > Depth(segments, n)
      BY <3>2 DEF MatchedAt
    <3>4. /\ k \in 1..L /\ k + 1 \in 1..L /\ k \in 0..L /\ n \in 0..L
          /\ \A l \in k..(n - 1) : l \in 0..L
      BY <2>1
    <3>5. Opened(k) /\ Tag(k) = Tag(n)
      BY <2>1, <3>2, <3>3, <3>4 DEF Tag
    <3>6. /\ Level(k) = Depth(segments, k) /\ Level(n) = Depth(segments, n)
          /\ \A l \in k..(n - 1) : Level(l) = Depth(segments, l)
      BY <2>1, <3>4
    <3>7. Level(k) = Level(n) + 1 /\ \A l \in k..(n - 1) : Level(l) > Level(n)
      BY <3>3, <3>6
    <3>. QED
      BY <3>5, <3>7
  <2>8. ASSUME NEW n \in 1..L, segments[n].text = "end_of_msg" PROVE Level(n) = 0
    BY <2>1, <2>4, <2>5, <2>8
  <2>9. Level(L) = IF options.generate THEN 2 ELSE 0
    BY <2>1, <2>4, <2>6 DEF LeftOpen
  <2>10. ASSUME NEW n \in 1..N
         PROVE  \E k \in 1..L :
                    /\ k \in MessagesTo(k) /\ Cardinality(MessagesTo(k)) = Ahead + n
                    /\ tokens[k + 2].segment.text = sent[n].role
    <3>1. PICK k \in 1..L :
              /\ k \in Heads(segments, k) /\ Cardinality(Heads(segments, k)) = Ahead + n
              /\ k + 2 \in 1..L /\ segments[k + 2].text = ordered[n].role
      BY <2>4
    <3>2. MessagesTo(k) = Heads(segments, k)
      BY <2>1, <2>5
    <3>3. tokens[k + 2].segment.text = sent[n].role
      BY <2>1, <2>3, <3>1
    <3>. QED
      BY <3>1, <3>2, <3>3
  <2>11. Cardinality(MessagesTo(L)) = (Ahead + N) + Behind
    BY <2>1, <2>4, <2>6
  <2>12. \A n \in 1..L : tokens[n].control <=> segments[n].special
    BY <2>1
  <2>. QED
    BY <2>7, <2>8, <2>9, <2>10, <2>11, <2>12
       DEF ControlsTellTheConversation, Ahead, Behind, One, L
<1>. QED
  BY <1>1, PromptHolds, PTL

\* The calls that results answer.
CallsOf(r) == {r[k].call : k \in 1..Len(r)}
CallsIn(o, b, e) == {o[k].call : k \in (b + 1)..e}

\* The run of a message, as the property has it.
LEMMA RunBounds ==
    ASSUME NEW o \in Seq(Message), NEW b, NEW e, IsRun(o, b, e), NEW n \in (b + 1)..e
    PROVE  /\ RunStart(o, n) = b + 1 /\ RunEnd(o, n) = e
           /\ Len(RunOf(o, n)) = e - b
           /\ CallsOf(RunOf(o, n)) = CallsIn(o, b, e)
<1>1. /\ b \in Nat /\ e \in Nat /\ Len(o) \in Nat /\ b < e /\ e <= Len(o) /\ n \in Nat
      /\ \A k \in (b + 1)..e : o[k].role = "tool"
      /\ b # 0 => o[b].role # "tool"
      /\ e # Len(o) => o[e + 1].role # "tool"
  BY DEF IsRun
<1>2. RunStart(o, n) = b + 1
  <2>. DEFINE P(k) == OneRun(o, k, n) /\ (k = 1 \/ o[k - 1].role # "tool")
  <2>1. b + 1 \in 1..n /\ P(b + 1)
    <3>1. b + 1 \in 1..n /\ (b + 1) - 1 = b /\ (b = 0 => b + 1 = 1)
          /\ \A l \in (b + 1)..n : l \in (b + 1)..e
      BY <1>1
    <3>. QED
      BY <1>1, <3>1 DEF OneRun
  <2>2. ASSUME NEW k \in 1..n, P(k) PROVE k = b + 1
    <3>1. ~(k <= b)
      <4>. SUFFICES ASSUME k <= b PROVE FALSE
        OBVIOUS
      <4>1. b \in k..n /\ b # 0
        BY <1>1
      <4>. QED
        BY <1>1, <2>2, <4>1 DEF OneRun
    <3>2. ~(b + 1 < k)
      <4>. SUFFICES ASSUME b + 1 < k PROVE FALSE
        OBVIOUS
      <4>1. k - 1 \in (b + 1)..e /\ k # 1
        BY <1>1
      <4>. QED
        BY <1>1, <2>2, <4>1
    <3>. QED
      BY <1>1, <3>1, <3>2
  <2>3. RunStart(o, n) = CHOOSE k \in 1..n : P(k)
    BY DEF RunStart
  <2>. HIDE DEF P
  <2>. QED
    BY <2>1, <2>2, <2>3
<1>3. RunEnd(o, n) = e
  <2>. DEFINE P(k) == OneRun(o, n, k) /\ (k = Len(o) \/ o[k + 1].role # "tool")
  <2>1. e \in n..Len(o) /\ P(e)
    <3>1. e \in n..Len(o) /\ \A l \in n..e : l \in (b + 1)..e
      BY <1>1
    <3>. QED
      BY <1>1, <3>1 DEF OneRun
  <2>2. ASSUME NEW k \in n..Len(o), P(k) PROVE k = e
    <3>1. ~(e < k)
      <4>. SUFFICES ASSUME e < k PROVE FALSE
        OBVIOUS
      <4>1. e + 1 \in n..k /\ e # Len(o)
        BY <1>1
      <4>. QED
        BY <1>1, <2>2, <4>1 DEF OneRun
    <3>2. ~(k < e)
      <4>. SUFFICES ASSUME k < e PROVE FALSE
        OBVIOUS
      <4>1. k + 1 \in (b + 1)..e /\ k # Len(o)
        BY <1>1
      <4>. QED
        BY <1>1, <2>2, <4>1
    <3>. QED
      BY <1>1, <3>1, <3>2
  <2>3. RunEnd(o, n) = CHOOSE k \in n..Len(o) : P(k)
    BY DEF RunEnd
  <2>. HIDE DEF P
  <2>. QED
    BY <2>1, <2>2, <2>3
<1>. DEFINE r == RunOf(o, n)
<1>4. r = SubSeq(o, b + 1, e)
  BY <1>2, <1>3 DEF RunOf
<1>5. Len(r) = e - b /\ \A k \in 1..(e - b) : r[k] = o[b + k]
  <2>1. /\ Len(SubSeq(o, b + 1, e)) = e - b
        /\ \A k \in 1..(e - b) : SubSeq(o, b + 1, e)[k] = o[b + k]
    BY <1>1, SubSeqProperties
  <2>. HIDE DEF r
  <2>. QED
    BY <1>4, <2>1
<1>. HIDE DEF r
<1>6. {r[k].call : k \in 1..Len(r)} = {o[k].call : k \in (b + 1)..e}
  <2>1. ASSUME NEW k \in 1..Len(r) PROVE b + k \in (b + 1)..e /\ r[k] = o[b + k]
    BY <1>1, <1>5
  <2>2. ASSUME NEW k \in (b + 1)..e PROVE k - b \in 1..Len(r) /\ r[k - b] = o[k]
    <3>1. k - b \in 1..(e - b) /\ b + (k - b) = k
      BY <1>1
    <3>. QED
      BY <1>5, <3>1
  <2>. DEFINE X == {r[k].call : k \in 1..Len(r)}
              Y == {o[k].call : k \in (b + 1)..e}
  <2>3. ASSUME NEW x \in X PROVE x \in Y
    <3>1. PICK k \in 1..Len(r) : x = r[k].call
      OBVIOUS
    <3>. QED
      BY <2>1, <3>1
  <2>4. ASSUME NEW x \in Y PROVE x \in X
    <3>1. PICK k \in (b + 1)..e : x = o[k].call
      OBVIOUS
    <3>. QED
      BY <2>2, <3>1
  <2>. QED
    BY <2>3, <2>4
<1>. QED
  BY <1>2, <1>3, <1>5, <1>6 DEF r, CallsOf, CallsIn

\* Message n is in the run from b + 1 to e, and the property's operators say so.
HasRun(o, n, b, e) ==
    /\ IsRun(o, b, e) /\ n \in (b + 1)..e
    /\ RunStart(o, n) = b + 1
    /\ Len(RunOf(o, n)) = e - b
    /\ CallsOf(RunOf(o, n)) = CallsIn(o, b, e)

\* Every result has the run that the property gives it.
LEMMA RunOfResult ==
    ASSUME NEW o \in Seq(Message), NEW n \in 1..Len(o), o[n].role = "tool"
    PROVE  \E b, e \in 0..Len(o) : HasRun(o, n, b, e)
<1>1. PICK b \in 0..Len(o), e \in 0..Len(o) : IsRun(o, b, e) /\ n \in (b + 1)..e
  BY RunExists
<1>2. /\ RunStart(o, n) = b + 1
      /\ Len(RunOf(o, n)) = e - b
      /\ CallsOf(RunOf(o, n)) = CallsIn(o, b, e)
  BY <1>1, RunBounds
<1>. QED
  BY <1>1, <1>2 DEF HasRun

\* In a run that answers every call of the assistant before it once, each result has the
\* place and the name of its call.
NamedByCall(o, n, b, cs) ==
    /\ n - b \in 1..Len(cs) /\ cs[n - b].id = o[n].call
    /\ cs[n - b].name = o[n].name /\ o[n].name # Nothing

\* In a complete run each result has the name of the call whose number is its place.
LEMMA CompleteRun ==
    ASSUME NEW s \in Seq(Message), NEW o \in Seq(Message), Len(o) = Len(s), Arranged(s, o),
           NEW b, NEW e, IsRun(o, b, e), b # 0, o[b].role = "assistant",
           \A k \in 1..Len(o[b].calls) : o[b].calls[k].name # Nothing,
           NEW cs, cs = CallsBefore(o, b + 1), e - b = Len(cs), Cardinality(Ids(cs)) = Len(cs),
           CallsIn(o, b, e) = Ids(cs),
           NEW n \in (b + 1)..e
    PROVE  NamedByCall(o, n, b, cs)
<1>1. b \in 1..Len(s) /\ e \in Nat /\ b < e /\ e <= Len(s) /\ Len(s) \in Nat /\ b \in 0..Len(s) /\ e \in 0..Len(s)
  BY DEF IsRun
<1>2. IsRun(s, b, e)
  BY <1>1, ArrangedRuns
<1>3. RunFits(s, o, b, e)
  BY <1>1, <1>2 DEF Arranged
<1>4. KeepCalls(s, o, b, e)
  BY <1>2, <1>3, ArrangedResults
<1>5. cs = CallsBefore(s, b + 1) /\ cs \in Seq(Call) /\ cs = o[b].calls
  <2>1. b + 1 \in 1..(Len(s) + 1)
    BY <1>1
  <2>2. CallsBefore(o, b + 1) = CallsBefore(s, b + 1)
    BY <2>1, ArrangedCalls
  <2>3. CallsBefore(s, b + 1) \in Seq(Call)
    BY <2>1, CallsBeforeType
  <2>4. CallsBefore(o, b + 1) = o[b].calls
    BY <1>1, CallsAfter
  <2>. QED
    BY <2>2, <2>3, <2>4
<1>6. {s[k].call : k \in (b + 1)..e} = Ids(cs)
  <2>1. {s[k].call : k \in (b + 1)..e} = {o[k].call : k \in (b + 1)..e}
    <3>. DEFINE X == {s[k].call : k \in (b + 1)..e}
                Y == {o[k].call : k \in (b + 1)..e}
    <3>1. ASSUME NEW x \in X PROVE x \in Y
      <4>1. PICK k \in (b + 1)..e : x = s[k].call
        OBVIOUS
      <4>2. PICK p \in (b + 1)..e : o[p].call = s[k].call
        BY <1>4 DEF KeepCalls
      <4>. QED
        BY <4>1, <4>2
    <3>2. ASSUME NEW x \in Y PROVE x \in X
      <4>1. PICK p \in (b + 1)..e : x = o[p].call
        OBVIOUS
      <4>2. o[p].at \in (b + 1)..e /\ o[p].call = s[o[p].at].call
        BY <1>4 DEF KeepCalls
      <4>. QED
        BY <4>1, <4>2
    <3>. QED
      BY <3>1, <3>2
  <2>. QED
    BY <2>1 DEF CallsIn
<1>7. IsComplete(s, b, e) /\ Answering(s, b, e)
  BY <1>5, <1>6 DEF IsComplete, Answering
<1>8. o[n] = Named(s[o[n].at], cs) /\ Position(o[n].call, cs) = n - b
  BY <1>3, <1>5, <1>7 DEF RunFits
<1>9. o[n].at \in 1..Len(s) /\ o[n].call = s[o[n].at].call /\ o[n].call \in Ids(cs)
  <2>1. o[n].call \in CallsIn(o, b, e)
    BY DEF CallsIn
  <2>2. o[n].at \in 1..Len(s) /\ o[n].call = s[o[n].at].call
    BY <1>4 DEF KeepCalls
  <2>. QED
    BY <2>1, <2>2
<1>10. n - b \in 1..Len(cs) /\ cs[n - b].id = o[n].call
  BY <1>5, <1>8, <1>9, PositionIs
<1>11. cs[n - b].name \in {o[n].name, Nothing}
  <2>1. s[o[n].at] \in Message /\ s[o[n].at].call \in Ids(cs)
    BY <1>9
  <2>2. cs[Position(s[o[n].at].call, cs)].name \in {Named(s[o[n].at], cs).name, Nothing}
    BY <1>5, <2>1, NamedType
  <2>. QED
    BY <1>8, <1>9, <2>2
<1>12. cs[n - b].name # Nothing
  BY <1>5, <1>10
<1>. QED
  BY <1>10, <1>11, <1>12 DEF NamedByCall

\* A run that answers every call of the assistant before it once is written with the
\* name and the number of the calls (encoding_k3.py:395-406, 656-680).
THEOREM NumbersNameTheCall == K3Spec => []IndexNamesTheCall
<1>1. OrderInv /\ PromptInv => IndexNamesTheCall
  <2>. SUFFICES ASSUME OrderInv, PromptInv, stage \in {"encode", "done"}, error = "none",
                       NEW n \in 1..Len(ordered), ordered[n].role = "tool",
                       NEW cs, cs = CallsBefore(ordered, n),
                       NEW rs, rs = RunOf(ordered, n),
                       RunStart(ordered, n) > 1,
                       ordered[RunStart(ordered, n) - 1].role = "assistant",
                       Len(rs) = Len(cs), Cardinality(Ids(cs)) = Len(cs),
                       {rs[k].call : k \in 1..Len(rs)} = Ids(cs)
                PROVE  \E k \in 1..Len(cs), s \in 1..Len(segments) :
                           /\ cs[k].id = ordered[n].call
                           /\ segments[s] = Tool(cs[k].name, ordered[n].at)
                           /\ segments[s + 1] = Index(k)
    BY DEF IndexNamesTheCall
  <2>1. /\ sent \in Seq(Message) /\ ordered \in Seq(Message) /\ Len(ordered) = Len(sent)
        /\ Arranged(sent, ordered)
    BY DEF OrderInv, OrderTypeOK
  <2>2. Finished(segments, ordered, Len(ordered))
    BY DEF PromptInv
  <2>3. PICK b \in 0..Len(ordered), e \in 0..Len(ordered) : HasRun(ordered, n, b, e)
    BY <2>1, RunOfResult
  <2>4. /\ IsRun(ordered, b, e) /\ n \in (b + 1)..e
        /\ RunStart(ordered, n) = b + 1
        /\ Len(rs) = e - b
        /\ {rs[k].call : k \in 1..Len(rs)} = {ordered[k].call : k \in (b + 1)..e}
    BY <2>3 DEF HasRun, CallsOf, CallsIn
  <2>5. b # 0 /\ b \in 1..Len(ordered) /\ (b + 1) - 1 = b /\ b < n
    BY <2>4
  <2>6. ordered[b].role = "assistant"
    BY <2>4, <2>5
  <2>7. \A k \in 1..Len(ordered[b].calls) : ordered[b].calls[k].name # Nothing
    BY <2>2, <2>5, <2>6 DEF Finished, CallsAreNamed
  <2>8. \A k \in (b + 1)..e : ordered[k].role = "tool"
    BY <2>4 DEF IsRun
  <2>9. cs = CallsBefore(ordered, b + 1)
    <3>1. e \in b..Len(ordered) /\ n \in (b + 1)..(e + 1)
      BY <2>4, <2>5
    <3>. QED
      BY <2>1, <2>4, <2>8, <3>1, CallsBeforeRun
  <2>10. /\ n - b \in 1..Len(cs) /\ cs[n - b].id = ordered[n].call
         /\ cs[n - b].name = ordered[n].name /\ ordered[n].name # Nothing
    <3>1. /\ e - b = Len(cs) /\ Cardinality(Ids(cs)) = Len(cs)
          /\ CallsIn(ordered, b, e) = Ids(cs)
      BY <2>4 DEF CallsIn
    <3>2. /\ sent \in Seq(Message) /\ ordered \in Seq(Message) /\ Len(ordered) = Len(sent)
          /\ Arranged(sent, ordered) /\ IsRun(ordered, b, e) /\ b # 0
          /\ ordered[b].role = "assistant" /\ n \in (b + 1)..e
      BY <2>1, <2>4, <2>5, <2>6
    <3>3. NamedByCall(ordered, n, b, cs)
      BY <2>7, <2>9, <3>1, <3>2, CompleteRun
    <3>. QED
      BY <3>3 DEF NamedByCall
  <2>11. Directly(ordered, b, n)
    <3>1. \A k \in (b + 1)..n : k \in (b + 1)..e
      BY <2>4
    <3>. QED
      BY <2>6, <2>8, <3>1 DEF Directly
  <2>12. Numbered(segments, ordered[n].name, ordered[n].at, n - b)
    BY <2>2, <2>5, <2>10, <2>11 DEF Finished, NamesWritten
  <2>13. PICK s \in 1..Len(segments) :
             segments[s] = Tool(ordered[n].name, ordered[n].at) /\ segments[s + 1] = Index(n - b)
    BY <2>12 DEF Numbered
  <2>. QED
    BY <2>10, <2>13
<1>. QED
  BY <1>1, PromptHolds, PTL
=============================================================================
