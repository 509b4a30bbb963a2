----------------------------- MODULE TextPieces -----------------------------
(***************************************************************************)
(* How the tokenizer of Kimi cuts a long text before it calls tiktoken     *)
(* (_encode_text_piece and _split_whitespaces_or_nonwhitespaces of         *)
(* tokenization_kimi.py): into chunks of MaxChars characters, and a chunk  *)
(* wherever a run of spaces, or of other characters, exceeds MaxRun.       *)
(* tiktoken panics on longer texts, and is quadratic in longer runs; but   *)
(* tokens never reach over a cut, so that each cut may change the count.   *)
(*                                                                         *)
(* A character is whether isspace() holds of it.  A slice s[i:j] of the    *)
(* code is [first |-> i + 1, last |-> j] here.                             *)
(***************************************************************************)
EXTENDS Integers, Sequences

CONSTANTS Inputs,    \* the texts that are encoded
          MaxChars,  \* TIKTOKEN_MAX_ENCODE_CHARS, 400 000
          MaxRun     \* MAX_NO_WHITESPACES_CHARS, 25 000

ASSUME InputsAssumption == Inputs \subseteq Seq(BOOLEAN)
ASSUME LimitsAssumption == MaxChars \in Nat \ {0} /\ MaxRun \in Nat \ {0}

VARIABLES text,
          chunk,         \* where the current chunk begins
          i,             \* the character the loop has come to
          sliceStart,    \* slice_start
          sliceLen,      \* current_slice_len: how long the run is
          sliceIsSpace,  \* current_slice_is_space
          pieces         \* what has been yielded

pieceVars == <<text, chunk, i, sliceStart, sliceLen, sliceIsSpace, pieces>>

PiecesStart(t) ==
    /\ text = t
    /\ chunk = 1 /\ i = 1 /\ sliceStart = 1
    /\ sliceLen = 0
    /\ sliceIsSpace = (text # <<>> /\ text[1])
    /\ pieces = <<>>
PiecesInit == \E t \in Inputs : PiecesStart(t)

ChunkEnd == IF chunk + MaxChars - 1 <= Len(text) THEN chunk + MaxChars - 1 ELSE Len(text)
Scanning == i <= ChunkEnd

Slice(first, last) == [first |-> first, last |-> last]

\* The run goes on.
Extend ==
    /\ Scanning
    /\ text[i] = sliceIsSpace /\ sliceLen < MaxRun
    /\ sliceLen' = sliceLen + 1
    /\ i' = i + 1
    /\ UNCHANGED <<text, chunk, sliceStart, sliceIsSpace, pieces>>

\* A run of the other kind begins.
BugTurn ==
    /\ Scanning
    /\ text[i] # sliceIsSpace
    /\ sliceIsSpace' = text[i]
    /\ i' = i + 1
    /\ UNCHANGED <<text, chunk, sliceStart, sliceLen, pieces>>
Turn ==
    /\ Scanning
    /\ text[i] # sliceIsSpace
    /\ sliceLen' = 1
    /\ sliceIsSpace' = text[i]
    /\ i' = i + 1
    /\ UNCHANGED <<text, chunk, sliceStart, pieces>>

\* The run is too long: what is before this character is yielded.
BugSplit ==
    /\ Scanning
    /\ text[i] = sliceIsSpace /\ sliceLen >= MaxRun
    /\ pieces' = Append(pieces, Slice(sliceStart, i - 1))
    /\ sliceStart' = i
    /\ sliceLen' = 0
    /\ i' = i + 1
    /\ UNCHANGED <<text, chunk, sliceIsSpace>>
Split ==
    /\ Scanning
    /\ text[i] = sliceIsSpace /\ sliceLen >= MaxRun
    /\ pieces' = Append(pieces, Slice(sliceStart, i - 1))
    /\ sliceStart' = i
    /\ sliceLen' = 1
    /\ i' = i + 1
    /\ UNCHANGED <<text, chunk, sliceIsSpace>>

\* The rest of the chunk is yielded, and the next one begins with counters of its own.
EndChunk ==
    /\ ~Scanning /\ chunk <= Len(text)
    /\ pieces' = Append(pieces, Slice(sliceStart, ChunkEnd))
    /\ chunk' = chunk + MaxChars
    /\ i' = chunk'
    /\ sliceStart' = chunk'
    /\ sliceLen' = 0
    /\ sliceIsSpace' = (chunk' <= Len(text) /\ text[chunk'])
    /\ UNCHANGED text

PiecesNext == Extend \/ Turn \/ Split \/ EndChunk

PiecesSpec == PiecesInit /\ [][PiecesNext]_pieceVars

-----------------------------------------------------------------------------
(***************************************************************************)
(* Properties                                                              *)
(***************************************************************************)
\* The state has the expected shape.
PiecesTypeOK ==
    /\ text \in Inputs
    /\ chunk \in Nat \ {0} /\ i \in Nat \ {0} /\ sliceStart \in Nat \ {0}
    /\ sliceLen \in 0..MaxRun
    /\ sliceIsSpace \in BOOLEAN
    /\ pieces \in Seq([first : Nat, last : Nat])

SameKind(first, last) == \A k \in first..last : text[k] = text[first]

\* Pieces follow one another without a gap or an overlap, and when the loop ends they
\* are the whole text; none is longer than tiktoken takes, nor has a run that is
\* (tokenization_kimi.py:155-187, 235-258).
PiecesAreTheText ==
    /\ \A k \in 1..Len(pieces) :
          /\ pieces[k].first = IF k = 1 THEN 1 ELSE pieces[k - 1].last + 1
          /\ pieces[k].first <= pieces[k].last
          /\ pieces[k].last - pieces[k].first < MaxChars
          /\ \A a, b \in pieces[k].first..pieces[k].last : SameKind(a, b) => b - a < MaxRun
    /\ chunk > Len(text) =>
          IF pieces = <<>> THEN text = <<>> ELSE pieces[Len(pieces)].last = Len(text)

\* A text is cut nowhere but between chunks and in runs that are too long: a character
\* of the run comes after the cut, and MaxRun of them before it, in its piece
\* (tokenization_kimi.py:237-258).
CutsAreNeeded ==
    \A k \in 1..Len(pieces) :
        LET last == pieces[k].last
        IN \/ last = Len(text)
           \/ \E n \in 1..last : last = n * MaxChars
           \/ last + 1 - MaxRun >= pieces[k].first /\ SameKind(last + 1 - MaxRun, last + 1)
=============================================================================
