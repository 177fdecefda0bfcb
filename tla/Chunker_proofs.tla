--------------------------- MODULE Chunker_proofs ---------------------------
(***************************************************************************)
(* Proofs about the chunker: for any settings, titles and documents.       *)
(***************************************************************************)
EXTENDS Chunker, TLAPS

-----------------------------------------------------------------------------
(***************************************************************************)
(* The parts of the inductive invariants.  All need Shape: a later block   *)
(* ends later, and something is accumulated once the loop has begun.       *)
(***************************************************************************)
BlocksGrow == \A i, j \in 0 .. Len(blocks) : i < j => End(i) < End(j)

Positions ==
    /\ next = 1 => from = 1 /\ acc_len = 0 /\ chunks = <<>> /\ chunk_idx = 0
    /\ next > 1 => from < next
    /\ stage \in {"read", "failed"} => next = 1
    /\ stage = "chunk" =>
           blocks # <<>> /\ (next = 1 => acc_section = blocks[1].section)
    /\ chunk_idx = Len(chunks)

Shape == TypeOK /\ BlocksGrow /\ Positions

\* What is accumulated belongs to the section the next flush files it under.
AccPure == \A i \in from .. next - 1 : blocks[i].section = acc_section

\* How the last chunk lies to what is accumulated.
LastChunk ==
    stage = "chunk" /\ chunks # <<>> =>
        LET last == chunks[Len(chunks)]
        IN /\ last.last < next - 1 /\ last.first <= from
           /\ from <= last.last => /\ Chars(from, last.last) <= config.overlap
                                   /\ last.section = acc_section

\* A text of len characters by the code's count: what that leaves out are the
\* separators of the text carried up to block m, and unless the last block was
\* added to carried text the count is within chunk_size.
Sized(a, b, len) ==
    /\ \E m \in a .. b :
           /\ m = a \/ Chars(a, m) <= config.overlap
           /\ len + Separator * (m - a) = TextLength(a, b)
    /\ a = b \/ Chars(a, b - 1) <= config.overlap \/ len <= config.chunk_size

AccSize == Accumulated => Sized(from, next - 1, acc_len)

-----------------------------------------------------------------------------
(***************************************************************************)
(* Lengths of text.                                                        *)
(***************************************************************************)
LEMMA EndType ==
    ASSUME TypeOK, NEW i \in 0 .. Len(blocks)
    PROVE  End(i) \in Nat
<1>1. blocks \in Seq(TextBlock)
    BY DEF TypeOK
<1>2. CASE i # 0
  <2>1. i \in 1 .. Len(blocks)
      BY <1>1, <1>2
  <2>2. blocks[i] \in TextBlock
      BY <1>1, <2>1
  <2> QED BY <1>2, <2>2 DEF End, TextBlock
<1> QED BY <1>2 DEF End

\* A part of a text has no more characters than the whole.
LEMMA CharsGrow ==
    ASSUME TypeOK, BlocksGrow,
           NEW a \in Nat, NEW b \in Nat, NEW c \in Nat, NEW d \in Nat,
           1 <= a, a <= c, c <= d + 1, d <= b, b <= Len(blocks)
    PROVE  Chars(c, d) \in Int /\ Chars(a, b) \in Int
           /\ Chars(c, d) <= Chars(a, b)
<1>1. Len(blocks) \in Nat
    BY DEF TypeOK
<1>2. /\ a - 1 \in 0 .. Len(blocks) /\ c - 1 \in 0 .. Len(blocks)
      /\ b \in 0 .. Len(blocks) /\ d \in 0 .. Len(blocks)
    BY <1>1
<1>3. /\ End(a - 1) \in Nat /\ End(c - 1) \in Nat
      /\ End(b) \in Nat /\ End(d) \in Nat
    BY <1>2, EndType
<1>4. End(a - 1) <= End(c - 1)
  <2>1. CASE a = c
      BY <2>1, <1>3
  <2>2. CASE a < c
      BY <2>2, <1>2, <1>3 DEF BlocksGrow
  <2> QED BY <2>1, <2>2
<1>5. End(d) <= End(b)
  <2>1. CASE b = d
      BY <2>1, <1>3
  <2>2. CASE d < b
      BY <2>2, <1>2, <1>3 DEF BlocksGrow
  <2> QED BY <2>1, <2>2
<1> QED BY <1>3, <1>4, <1>5 DEF Chars

-----------------------------------------------------------------------------
(***************************************************************************)
(* Types and positions.                                                    *)
(***************************************************************************)
ReadStep == ExtractionFails \/ ReadTitle \/ ReadText \/ EndOfFile

\* Nothing is chunked while the document is read.
LEMMA ReadPhase ==
    ASSUME Shape, ReadStep \/ UNCHANGED vars
    PROVE  /\ UNCHANGED <<config, from, next, acc_len, chunk_idx, chunks>>
           /\ UNCHANGED vars \/ next = 1
BY DEF Shape, Positions, ReadStep, ExtractionFails, ReadTitle, ReadText, Keep,
       EndOfFile, readVars, accVars, vars

LEMMA FlushType ==
    ASSUME TypeOK, Accumulated, FlushChunk
    PROVE  /\ chunks' \in Seq(TextChunk)
           /\ chunk_idx = Len(chunks) => chunk_idx' = Len(chunks')
<1> DEFINE chunk == [first |-> from, last |-> next - 1,
                     section |-> acc_section, index |-> chunk_idx]
<1>1. chunks \in Seq(TextChunk) /\ chunk_idx \in Nat
    BY DEF TypeOK
<1>2. chunk \in TextChunk
    BY <1>1 DEF TypeOK, Accumulated, TextChunk
<1>3. CASE chunks' = Append(chunks, chunk) /\ chunk_idx' = chunk_idx + 1
    BY <1>1, <1>2, <1>3
<1>4. CASE UNCHANGED <<chunks, chunk_idx>>
    BY <1>1, <1>4
<1> QED BY <1>3, <1>4 DEF FlushChunk

\* Joining the next block to carried text.
LEMMA JoinType ==
    ASSUME TypeOK, BlocksGrow, LoopOverBlocks, NEW i \in from .. next,
           NEW n \in Nat, Join(i, n)
    PROVE  /\ from' \in 1 .. next' /\ next' \in 1 .. Len(blocks) + 1
           /\ acc_len' \in Nat /\ from' < next' /\ next' > 1
           /\ Block.section \in Sections
<1>1. next \in 1 .. Len(blocks) /\ Len(blocks) \in Nat /\ from \in 1 .. next
    BY DEF TypeOK, LoopOverBlocks
<1>2. Chars(next, next) \in Nat
  <2>1. /\ next - 1 \in 0 .. Len(blocks) /\ next \in 0 .. Len(blocks)
        /\ next - 1 < next
      BY <1>1
  <2>2. End(next - 1) < End(next) /\ End(next - 1) \in Nat /\ End(next) \in Nat
      BY <2>1, EndType DEF BlocksGrow
  <2> QED BY <2>2 DEF Chars
<1>3. Block.section \in Sections
  <2>1. blocks \in Seq(TextBlock)
      BY DEF TypeOK
  <2>2. Block \in TextBlock
      BY <1>1, <2>1 DEF Block
  <2> QED BY <2>2 DEF TextBlock
<1> QED BY <1>1, <1>2, <1>3 DEF Join, Separator

LEMMA CarriedType ==
    ASSUME TypeOK, BlocksGrow, LoopOverBlocks, NEW i \in from .. next
    PROVE  Chars(i, next - 1) \in Nat
<1>1. next \in 1 .. Len(blocks) /\ Len(blocks) \in Nat /\ from \in 1 .. next
    BY DEF TypeOK, LoopOverBlocks
<1>2. i - 1 \in 0 .. Len(blocks) /\ next - 1 \in 0 .. Len(blocks)
    BY <1>1
<1>3. End(i - 1) \in Nat /\ End(next - 1) \in Nat
    BY <1>2, EndType
<1>4. End(i - 1) <= End(next - 1)
  <2>1. CASE i = next
      BY <2>1, <1>3
  <2>2. CASE i < next
      BY <2>2, <1>1, <1>2, <1>3 DEF BlocksGrow
  <2> QED BY <2>1, <2>2, <1>1
<1> QED BY <1>3, <1>4 DEF Chars

LEMMA ShapeInit == Init => Shape
<1> SUFFICES ASSUME Init PROVE Shape
    OBVIOUS
<1> USE DEF Init
<1>1. TypeOK
  <2>1. blocks \in Seq(TextBlock) /\ chunks \in Seq(TextChunk)
      OBVIOUS
  <2>2. chunk_idx \in 0 .. Len(chunks) /\ next \in 1 .. Len(blocks) + 1
      OBVIOUS
  <2>3. from \in 1 .. next /\ acc_len \in Nat
      OBVIOUS
  <2>4. current_section \in Sections /\ acc_section \in Sections
      BY DEF Sections
  <2>5. config \in Configs /\ kept \in BOOLEAN
        /\ stage \in {"read", "chunk", "done", "failed"}
      OBVIOUS
  <2> QED BY <2>1, <2>2, <2>3, <2>4, <2>5 DEF TypeOK
<1>2. BlocksGrow
    BY DEF BlocksGrow
<1>3. Positions
    BY DEF Positions
<1> QED BY <1>1, <1>2, <1>3 DEF Shape

\* A text is added at the end, and has at least one character.
LEMMA ReadTextShape == Shape /\ ReadText => TypeOK' /\ BlocksGrow'
<1> SUFFICES ASSUME Shape, ReadText PROVE TypeOK' /\ BlocksGrow'
    OBVIOUS
<1> USE DEF Shape
<1>1. PICK size \in Sizes :
          blocks' = Append(blocks, [section |-> current_section,
                                    end |-> End(Len(blocks)) + size])
    BY DEF ReadText
<1>2. PICK n \in Nat : n = Len(blocks) /\ blocks \in Seq(TextBlock)
    BY DEF TypeOK
<1>3. PICK new \in Nat : new = End(n) + size /\ End(n) < new
  <2>1. size \in Nat /\ size > 0
      BY ConfigsAssumption
  <2>2. End(n) \in Nat
      BY <1>2, EndType
  <2> QED BY <2>1, <2>2
<1>4. /\ blocks' \in Seq(TextBlock) /\ Len(blocks') = n + 1
      /\ blocks'[n + 1].end = new
      /\ \A i \in 1 .. n : blocks'[i] = blocks[i]
  <2> DEFINE block == [section |-> current_section, end |-> new]
  <2>1. block \in TextBlock
      BY DEF TextBlock, TypeOK
  <2>2. blocks' = Append(blocks, block)
      BY <1>1, <1>2, <1>3
  <2>3. block.end = new
      OBVIOUS
  <2> HIDE DEF block
  <2> QED BY <2>1, <2>2, <2>3, <1>2
<1>5. TypeOK'
    BY <1>2, <1>4 DEF TypeOK, ReadText, Keep, accVars
<1>6. ASSUME NEW i \in 0 .. n
      PROVE  End(i)' = End(i) /\ End(i) \in Nat /\ End(i) < new
  <2>1. End(i)' = End(i)
      BY <1>4, <1>2 DEF End
  <2>2. End(i) \in Nat /\ End(n) \in Nat
      BY <1>2, EndType
  <2>3. CASE i = n
      BY <2>1, <2>2, <2>3, <1>3
  <2>4. CASE i < n
    <3>1. End(i) < End(n)
        BY <2>4, <1>2 DEF BlocksGrow
    <3> QED BY <2>1, <2>2, <3>1, <1>3
  <2> QED BY <2>3, <2>4
<1>7. End(n + 1)' = new
    BY <1>4, <1>2 DEF End
<1>8. BlocksGrow'
  <2> SUFFICES ASSUME NEW i \in 0 .. n + 1, NEW j \in 0 .. n + 1, i < j
               PROVE  End(i)' < End(j)'
      BY <1>4 DEF BlocksGrow
  <2>1. i \in 0 .. n
      BY <1>2
  <2>2. CASE j = n + 1
      BY <2>1, <2>2, <1>6, <1>7
  <2>3. CASE j \in 0 .. n
    <3>1. End(i) < End(j)
        BY <2>1, <2>3, <1>2 DEF BlocksGrow
    <3> QED BY <3>1, <2>1, <2>3, <1>6
  <2> QED BY <2>2, <2>3
<1> QED BY <1>5, <1>8

LEMMA ShapeStep == Shape /\ [Next]_vars => Shape'
<1> SUFFICES ASSUME Shape, [Next]_vars PROVE Shape'
    OBVIOUS
<1> USE DEF Shape
<1>1. CASE ExtractionFails \/ ReadTitle \/ EndOfFile \/ UNCHANGED vars
  <2> USE DEF ExtractionFails, ReadTitle, Keep, EndOfFile, readVars, accVars,
              vars
  <2>1. UNCHANGED blocks
      BY <1>1
  <2>2. TypeOK'
    <3>1. blocks # <<>> => blocks[1].section \in Sections
      <4>1. blocks \in Seq(TextBlock)
          BY DEF TypeOK
      <4>2. blocks # <<>> => blocks[1] \in TextBlock
          BY <4>1
      <4> QED BY <4>2 DEF TextBlock
    <3> QED BY <1>1, <3>1 DEF TypeOK, Sections
  <2>3. BlocksGrow'
      BY <2>1 DEF BlocksGrow, End
  <2>4. Positions'
      BY <1>1 DEF Positions
  <2> QED BY <2>2, <2>3, <2>4
<1>2. CASE ReadText
  <2>1. Positions'
      BY <1>2 DEF Positions, ReadText, Keep, accVars
  <2> QED BY <2>1, <1>2, ReadTextShape
<1>3. CASE NewSection \/ SplitBySize \/ AppendBlock
  <2>1. /\ LoopOverBlocks
        /\ UNCHANGED <<config, stage, kept, current_section, blocks>>
      BY <1>3 DEF NewSection, SplitBySize, AppendBlock, readVars
  <2>2. \E i \in from .. next, n \in Nat : Join(i, n)
    <3>1. CASE NewSection
        BY <3>1, 0 \in Nat DEF NewSection, TypeOK
    <3>2. CASE SplitBySize
        BY <3>2, <2>1, CarriedType DEF SplitBySize
    <3>3. CASE AppendBlock
        BY <3>3 DEF AppendBlock, TypeOK
    <3> QED BY <1>3, <3>1, <3>2, <3>3
  <2>3. /\ from' \in 1 .. next' /\ next' \in 1 .. Len(blocks) + 1
        /\ acc_len' \in Nat /\ from' < next' /\ next' > 1
        /\ Block.section \in Sections
      BY <2>1, <2>2, JoinType
  <2>4. /\ chunks' \in Seq(TextChunk)
        /\ chunk_idx' = Len(chunks')
      BY <1>3, FlushType
         DEF NewSection, SplitBySize, AppendBlock, SectionChanges, TooLong,
             TypeOK, Positions
  <2>5. acc_section' \in Sections
      BY <1>3, <2>3 DEF NewSection, SplitBySize, AppendBlock, TypeOK
  <2>6. TypeOK'
      BY <2>1, <2>3, <2>4, <2>5 DEF TypeOK
  <2>7. BlocksGrow'
      BY <2>1 DEF BlocksGrow, End
  <2>8. Positions'
      BY <2>1, <2>3, <2>4 DEF Positions, LoopOverBlocks, TypeOK
  <2> QED BY <2>6, <2>7, <2>8
<1>4. CASE FlushRemaining
  <2>1. /\ UNCHANGED <<config, kept, current_section, blocks, from, next,
                       acc_section, acc_len>>
        /\ stage' = "done"
      BY <1>4 DEF FlushRemaining, readVars, accVars
  <2>2. next > 1
      BY <1>4 DEF FlushRemaining, Positions, TypeOK
  <2>3. /\ chunks' \in Seq(TextChunk)
        /\ chunk_idx' = Len(chunks')
      BY <1>4, <2>2, FlushType DEF FlushRemaining, Accumulated, Positions
  <2>4. TypeOK'
      BY <2>1, <2>3 DEF TypeOK
  <2>5. BlocksGrow'
      BY <2>1 DEF BlocksGrow, End
  <2>6. Positions'
      BY <2>1, <2>2, <2>3 DEF Positions
  <2> QED BY <2>4, <2>5, <2>6
<1> QED BY <1>1, <1>2, <1>3, <1>4 DEF Next

(***************************************************************************)
(* Every variable of the chunker keeps its type: etl.py indexes no block   *)
(* that does not exist and counts no length below zero.                    *)
(***************************************************************************)
THEOREM TypeCorrect == Spec => []TypeOK
<1>1. Spec => []Shape
    BY ShapeInit, ShapeStep, PTL DEF Spec
<1>2. Shape => TypeOK
    BY DEF Shape
<1> QED BY <1>1, <1>2, PTL

-----------------------------------------------------------------------------
(***************************************************************************)
(* Flushing: the chunks before it stay, and the new one, if any, holds     *)
(* what was accumulated.                                                   *)
(***************************************************************************)
Long == TextLength(from, next - 1) >= config.min_chunk_length

LEMMA Flushing ==
    ASSUME TypeOK, Accumulated, FlushChunk
    PROVE  \/ UNCHANGED <<chunks, chunk_idx>> /\ ~Long
           \/ /\ Long
              /\ Len(chunks') = Len(chunks) + 1
              /\ chunk_idx' = chunk_idx + 1
              /\ \A k \in 1 .. Len(chunks) : chunks'[k] = chunks[k]
              /\ chunks'[Len(chunks) + 1] =
                     [first |-> from, last |-> next - 1,
                      section |-> acc_section, index |-> chunk_idx]
<1> DEFINE chunk == [first |-> from, last |-> next - 1,
                     section |-> acc_section, index |-> chunk_idx]
<1>1. chunks \in Seq(TextChunk) /\ chunk_idx \in Nat
    BY DEF TypeOK
<1>2. CASE UNCHANGED <<chunks, chunk_idx>> /\ ~Long
    BY <1>2
<1>3. CASE /\ chunks' = Append(chunks, chunk) /\ chunk_idx' = chunk_idx + 1
           /\ Long
  <2>1. chunk \in TextChunk
      BY <1>1 DEF TypeOK, Accumulated, TextChunk
  <2> HIDE DEF chunk
  <2>2. /\ Len(chunks') = Len(chunks) + 1
        /\ \A k \in 1 .. Len(chunks) : chunks'[k] = chunks[k]
        /\ chunks'[Len(chunks) + 1] = chunk
      BY <1>1, <1>3, <2>1
  <2> QED BY <2>2, <1>3 DEF chunk
<1>4. TextLength(from, next - 1) < config.min_chunk_length => ~Long
  <2>1. TextLength(from, next - 1) \in Int
    <3>1. /\ from \in Nat /\ from >= 1 /\ next - 1 \in 0 .. Len(blocks)
          /\ from - 1 \in 0 .. Len(blocks)
        BY DEF TypeOK, Accumulated
    <3>2. End(from - 1) \in Nat /\ End(next - 1) \in Nat
        BY <3>1, EndType
    <3> QED BY <3>1, <3>2 DEF TextLength, Chars, Separator
  <2>2. config.min_chunk_length \in Nat
      BY ConfigsAssumption DEF TypeOK
  <2> QED BY <2>1, <2>2 DEF Long
<1>5. \/ UNCHANGED <<chunks, chunk_idx>> /\ ~Long
      \/ /\ chunks' = Append(chunks, chunk) /\ chunk_idx' = chunk_idx + 1
         /\ Long
    BY <1>4 DEF FlushChunk, Long
<1> QED BY <1>2, <1>3, <1>5

\* The steps of the loop: what they have in common, and when they flush.
LoopStep == NewSection \/ SplitBySize \/ AppendBlock

LEMMA Looping ==
    ASSUME Shape, LoopStep
    PROVE  /\ UNCHANGED <<config, blocks, stage>> /\ stage = "chunk"
           /\ next \in 1 .. Len(blocks) /\ next' = next + 1
           /\ from' \in from .. next
           /\ NewSection \/ SplitBySize => Accumulated /\ FlushChunk
           /\ AppendBlock => UNCHANGED <<chunks, chunk_idx>>
<1>1. from \in 1 .. next /\ Len(blocks) \in Nat
      /\ next \in 1 .. Len(blocks) + 1
    BY DEF Shape, TypeOK
<1> QED BY <1>1 DEF LoopStep, NewSection, SplitBySize, AppendBlock, Join,
               LoopOverBlocks, SectionChanges, TooLong, readVars

-----------------------------------------------------------------------------
(***************************************************************************)
(* Sections.                                                               *)
(***************************************************************************)
LEMMA FlushPure ==
    ASSUME TypeOK, AccPure, SectionPure, Accumulated, FlushChunk,
           UNCHANGED blocks
    PROVE  SectionPure'
<1> SUFFICES ASSUME NEW k \in DOMAIN chunks',
                    NEW i \in chunks'[k].first .. chunks'[k].last
             PROVE  blocks[i].section = chunks'[k].section
    BY DEF SectionPure
<1>1. chunks \in Seq(TextChunk) /\ chunks' \in Seq(TextChunk)
    BY FlushType DEF TypeOK
<1>2. CASE UNCHANGED chunks
    BY <1>2 DEF SectionPure
<1>3. CASE k \in 1 .. Len(chunks) /\ chunks'[k] = chunks[k]
    BY <1>1, <1>3 DEF SectionPure
<1>4. CASE chunks'[k] = [first |-> from, last |-> next - 1,
                         section |-> acc_section, index |-> chunk_idx]
    BY <1>4 DEF AccPure
<1>5. CASE Len(chunks') = Len(chunks) + 1
  <2>1. k \in 1 .. Len(chunks) \/ k = Len(chunks) + 1
    <3>1. k \in 1 .. Len(chunks') /\ Len(chunks) \in Nat
        BY <1>1
    <3> QED BY <3>1, <1>5
  <2> QED BY <2>1, <1>2, <1>3, <1>4, Flushing
<1> QED BY <1>2, <1>5, Flushing

LEMMA SectionStep ==
    Shape /\ AccPure /\ SectionPure /\ [Next]_vars => AccPure' /\ SectionPure'
<1> SUFFICES ASSUME Shape, AccPure, SectionPure, [Next]_vars
             PROVE  AccPure' /\ SectionPure'
    OBVIOUS
<1>1. CASE UNCHANGED vars
    BY <1>1 DEF vars, AccPure, SectionPure
<1>2. CASE ReadStep
  <2>1. CASE next = 1
      BY <1>2, <2>1, ReadPhase DEF AccPure, SectionPure, Shape, Positions
  <2> QED BY <1>1, <1>2, <2>1, ReadPhase
<1>3. CASE LoopStep
  <2>1. SectionPure'
    <3>1. CASE NewSection \/ SplitBySize
        BY <1>3, <3>1, Looping, FlushPure DEF Shape
    <3>2. CASE AppendBlock
        BY <1>3, <3>2, Looping DEF SectionPure
    <3> QED BY <1>3, <3>1, <3>2 DEF LoopStep
  <2>2. SUFFICES ASSUME NEW i \in from' .. next' - 1
                 PROVE  blocks[i].section = acc_section'
      BY <1>3, <2>1, Looping DEF AccPure
  <2>3. i = next \/ i \in from .. next - 1
    <3>1. from \in Int /\ next \in Int
        BY DEF Shape, TypeOK
    <3> QED BY <3>1, <1>3, Looping
  <2>4. CASE NewSection
    <3>1. i = next
        BY <2>4, <1>3, Looping DEF NewSection, Join
    <3> QED BY <2>4, <3>1 DEF NewSection, Block
  <2>5. CASE SplitBySize
    <3>1. acc_section' = Block.section /\ Block.section = acc_section
        BY <2>5 DEF SplitBySize, SectionChanges, TooLong
    <3> QED BY <2>3, <3>1 DEF AccPure, Block
  <2>6. CASE AppendBlock
    <3>1. acc_section' = acc_section
        BY <2>6 DEF AppendBlock
    <3>2. Block.section = acc_section
      <4>1. CASE Accumulated
          BY <2>6, <4>1 DEF AppendBlock, SectionChanges
      <4>2. CASE ~Accumulated
          BY <2>6, <4>2
             DEF AppendBlock, LoopOverBlocks, Accumulated, Block, Shape,
                 TypeOK, Positions
      <4> QED BY <4>1, <4>2
    <3> QED BY <2>3, <3>1, <3>2 DEF AccPure, Block
  <2> QED BY <1>3, <2>4, <2>5, <2>6 DEF LoopStep
<1>4. CASE FlushRemaining
  <2>1. /\ UNCHANGED <<blocks, from, next, acc_section>> /\ FlushChunk
        /\ Accumulated
      BY <1>4 DEF FlushRemaining, readVars, accVars, Accumulated, Shape,
                  Positions, TypeOK
  <2> QED BY <2>1, FlushPure DEF AccPure, Shape
<1> QED BY <1>1, <1>2, <1>3, <1>4 DEF Next, ReadStep, LoopStep

(***************************************************************************)
(* A chunk is stored with the section title of all its text.               *)
(***************************************************************************)
THEOREM SectionsPure == Spec => []SectionPure
<1>1. Init => Shape /\ AccPure /\ SectionPure
    BY ShapeInit DEF Init, AccPure, SectionPure
<1>2. Spec => [](Shape /\ AccPure /\ SectionPure)
    BY <1>1, ShapeStep, SectionStep, PTL DEF Spec
<1> QED BY <1>2, PTL

-----------------------------------------------------------------------------
(***************************************************************************)
(* Order and overlap of the chunks.                                        *)
(***************************************************************************)
\* What a step of the loop keeps of the accumulated text.
LEMMA Carrying ==
    ASSUME Shape, LoopStep
    PROVE  /\ from' = next \/ acc_section' = acc_section
           /\ SplitBySize => /\ OverlapFrom(from')
                             /\ Join(from', Chars(from', next - 1))
           /\ NewSection => from' = next
           /\ AppendBlock => from' = from
BY DEF LoopStep, NewSection, SplitBySize, AppendBlock, Join, SectionChanges,
       TooLong

LEMMA FlushAdvances ==
    ASSUME Shape, LastChunk, ChunksAdvance, stage = "chunk", Accumulated,
           FlushChunk, UNCHANGED <<config, blocks>>
    PROVE  ChunksAdvance'
<1>1. PICK n \in Nat : n = Len(chunks) /\ chunks \in Seq(TextChunk)
    BY DEF Shape, TypeOK
<1>2. chunks' \in Seq(TextChunk)
    BY FlushType DEF Shape
<1>3. CASE UNCHANGED chunks
    BY <1>3 DEF ChunksAdvance, Chars, End
<1>4. CASE Long /\ Len(chunks') = n + 1
  <2>1. /\ \A k \in 1 .. n : chunks'[k] = chunks[k]
        /\ chunks'[n + 1] = [first |-> from, last |-> next - 1,
                             section |-> acc_section, index |-> n]
      BY <1>1, <1>4, Flushing DEF Shape, Positions
  <2> SUFFICES ASSUME NEW k \in 1 .. n + 1
      PROVE /\ chunks'[k].index = k - 1
            /\ chunks'[k].first <= chunks'[k].last
            /\ k > 1 =>
                 /\ chunks'[k - 1].last < chunks'[k].last
                 /\ chunks'[k - 1].first <= chunks'[k].first
                 /\ chunks'[k].first <= chunks'[k - 1].last =>
                       /\ Chars(chunks'[k].first, chunks'[k - 1].last)
                             <= config.overlap
                       /\ chunks'[k - 1].section = chunks'[k].section
    <3>1. DOMAIN chunks' = 1 .. n + 1
        BY <1>2, <1>4
    <3> QED BY <3>1 DEF ChunksAdvance, Chars, End
  <2>2. CASE k \in 1 .. n
    <3>1. k \in DOMAIN chunks /\ chunks'[k] = chunks[k]
        BY <1>1, <2>1, <2>2
    <3>2. k > 1 => chunks'[k - 1] = chunks[k - 1]
        BY <2>1, <2>2
    <3> QED BY <3>1, <3>2 DEF ChunksAdvance
  <2>3. CASE k = n + 1
    <3>1. from <= next - 1
        BY DEF Accumulated, Shape, TypeOK
    <3>2. CASE n = 0
        BY <2>1, <2>3, <3>1, <3>2
    <3>3. CASE n > 0
      <4>1. chunks'[k - 1] = chunks[n] /\ chunks # <<>>
          BY <1>1, <2>1, <2>3, <3>3
      <4>2. LET last == chunks[n]
            IN /\ last.last < next - 1 /\ last.first <= from
               /\ from <= last.last =>
                     /\ Chars(from, last.last) <= config.overlap
                     /\ last.section = acc_section
          BY <1>1, <4>1 DEF LastChunk
      <4> QED BY <2>1, <2>3, <3>1, <4>1, <4>2
    <3> QED BY <3>2, <3>3
  <2> QED BY <2>2, <2>3
<1> QED BY <1>1, <1>3, <1>4, Flushing DEF Shape

LEMMA LastChunkLoop ==
    ASSUME Shape, LastChunk, LoopStep
    PROVE  LastChunk'
<1>1. PICK n \in Nat : n = Len(chunks) /\ chunks \in Seq(TextChunk)
    BY DEF Shape, TypeOK
<1>2. /\ from \in Nat /\ next \in Nat /\ from >= 1 /\ from' \in Nat
      /\ from <= from' /\ from' <= next /\ next' = next + 1
      /\ next <= Len(blocks) /\ Len(blocks) \in Nat
    BY Looping DEF Shape, TypeOK
<1>3. CASE UNCHANGED chunks
  <2> SUFFICES ASSUME chunks # <<>>
      PROVE LET last == chunks[n]
            IN /\ last.last < next /\ last.first <= from'
               /\ from' <= last.last =>
                     /\ Chars(from', last.last) <= config.overlap
                     /\ last.section = acc_section'
      BY <1>1, <1>2, <1>3, Looping DEF LastChunk, Chars, End
  <2>1. PICK last \in TextChunk : last = chunks[n]
      BY <1>1
  <2>2. /\ last.last < next - 1 /\ last.first <= from
        /\ from <= last.last => /\ Chars(from, last.last) <= config.overlap
                                /\ last.section = acc_section
      BY <1>1, <2>1, Looping DEF LastChunk
  <2>3. last.last \in Nat /\ last.first \in Nat
      BY DEF TextChunk
  <2>4. ASSUME from' <= last.last
        PROVE  Chars(from', last.last) <= config.overlap
               /\ last.section = acc_section'
    <3>1. from <= last.last /\ from' # next
        BY <1>2, <2>2, <2>3, <2>4
    <3>2. /\ Chars(from', last.last) <= Chars(from, last.last)
          /\ Chars(from', last.last) \in Int /\ Chars(from, last.last) \in Int
      <4>1. PICK a \in Nat, b \in Nat, c \in Nat :
                a = from /\ b = last.last /\ c = from'
          BY <1>2, <2>3
      <4>2. 1 <= a /\ a <= c /\ c <= b + 1 /\ b <= Len(blocks)
          BY <1>2, <2>2, <2>4, <4>1
      <4>3. /\ Chars(c, b) <= Chars(a, b)
            /\ Chars(c, b) \in Int /\ Chars(a, b) \in Int
          BY <4>2, CharsGrow DEF Shape
      <4> QED BY <4>1, <4>3
    <3>3. config.overlap \in Nat
        BY ConfigsAssumption DEF Shape, TypeOK
    <3> QED BY <3>1, <3>2, <3>3, <2>2, Carrying
  <2> QED BY <1>2, <2>1, <2>2, <2>3, <2>4
<1>4. CASE ~UNCHANGED chunks
  <2>1. (NewSection \/ SplitBySize) /\ Accumulated /\ FlushChunk
      BY <1>4, Looping DEF LoopStep
  <2>2. /\ Len(chunks') = n + 1
        /\ chunks'[n + 1] = [first |-> from, last |-> next - 1,
                             section |-> acc_section, index |-> n]
      BY <1>1, <1>4, <2>1, Flushing DEF Shape, Positions
  <2>3. ASSUME from' <= next - 1
        PROVE  Chars(from', next - 1) <= config.overlap
               /\ acc_section = acc_section'
    <3>1. from' # next
        BY <1>2, <2>3
    <3> QED BY <2>1, <3>1, Carrying DEF OverlapFrom
  <2> QED BY <1>2, <2>2, <2>3, Looping DEF LastChunk, Chars, End
<1> QED BY <1>3, <1>4

LEMMA AdvanceStep ==
    Shape /\ LastChunk /\ ChunksAdvance /\ [Next]_vars
        => LastChunk' /\ ChunksAdvance'
<1> SUFFICES ASSUME Shape, LastChunk, ChunksAdvance, [Next]_vars
             PROVE  LastChunk' /\ ChunksAdvance'
    OBVIOUS
<1>1. CASE UNCHANGED vars
    BY <1>1 DEF vars, LastChunk, ChunksAdvance, Chars, End
<1>2. CASE ReadStep
  <2>1. CASE next = 1
    <3>1. chunks = <<>> /\ chunks' = <<>>
        BY <1>2, <2>1, ReadPhase DEF Shape, Positions
    <3> QED BY <3>1 DEF LastChunk, ChunksAdvance
  <2> QED BY <1>1, <1>2, <2>1, ReadPhase
<1>3. CASE LoopStep
  <2>1. CASE NewSection \/ SplitBySize
      BY <1>3, <2>1, Looping, LastChunkLoop, FlushAdvances
  <2>2. CASE AppendBlock
      BY <1>3, <2>2, Looping, LastChunkLoop DEF ChunksAdvance, Chars, End
  <2> QED BY <1>3, <2>1, <2>2 DEF LoopStep
<1>4. CASE FlushRemaining
  <2>1. /\ UNCHANGED <<config, blocks>> /\ FlushChunk /\ Accumulated
        /\ stage = "chunk" /\ stage' = "done"
      BY <1>4 DEF FlushRemaining, readVars, Accumulated, Shape, Positions,
                  TypeOK
  <2> QED BY <2>1, FlushAdvances DEF LastChunk
<1> QED BY <1>1, <1>2, <1>3, <1>4 DEF Next, ReadStep, LoopStep

(***************************************************************************)
(* Chunks are numbered without a gap, each has text the earlier ones do    *)
(* not have, and it repeats no more than the overlap of the one before.    *)
(***************************************************************************)
THEOREM ChunksInOrder == Spec => []ChunksAdvance
<1>1. Init => Shape /\ LastChunk /\ ChunksAdvance
    BY ShapeInit DEF Init, LastChunk, ChunksAdvance
<1>2. Spec => [](Shape /\ LastChunk /\ ChunksAdvance)
    BY <1>1, ShapeStep, AdvanceStep, PTL DEF Spec
<1> QED BY <1>2, PTL

-----------------------------------------------------------------------------
(***************************************************************************)
(* Size of the chunks.                                                     *)
(***************************************************************************)
\* What SizeBound says of one chunk.
Fits(first, last) ==
    \/ TextLength(first, last) - config.chunk_size <= 0
    \/ first = last
    \/ Chars(first, last - 1) <= config.overlap
    \/ \E m \in first .. last :
           /\ Chars(first, m) <= config.overlap
           /\ TextLength(first, last) - config.chunk_size
                 <= Separator * (m - first)

LEMMA SizeBoundFits ==
    SizeBound <=> \A k \in DOMAIN chunks : Fits(chunks[k].first, chunks[k].last)
BY DEF SizeBound, Fits

LEMMA SizedFits ==
    ASSUME Shape, NEW a \in Nat, NEW b \in Nat, NEW len \in Nat,
           1 <= a, a <= b, b <= Len(blocks), Sized(a, b, len)
    PROVE  Fits(a, b)
<1>1. PICK m \in a .. b :
          /\ m = a \/ Chars(a, m) <= config.overlap
          /\ len + Separator * (m - a) = TextLength(a, b)
    BY DEF Sized
<1>2. config.chunk_size \in Nat
    BY ConfigsAssumption DEF Shape, TypeOK
<1>3. CASE len <= config.chunk_size
    BY <1>1, <1>2, <1>3 DEF Fits, Separator
<1> QED BY <1>3 DEF Sized, Fits

LEMMA FlushSize ==
    ASSUME Shape, AccSize, SizeBound, Accumulated, FlushChunk,
           UNCHANGED <<config, blocks>>
    PROVE  SizeBound'
<1>1. PICK n \in Nat : n = Len(chunks) /\ chunks \in Seq(TextChunk)
                       /\ chunks' \in Seq(TextChunk)
    BY FlushType DEF Shape, TypeOK
<1>2. SUFFICES ASSUME NEW k \in DOMAIN chunks'
               PROVE  Fits(chunks'[k].first, chunks'[k].last)
  <2>1. \A first, last : Fits(first, last)' <=> Fits(first, last)
      BY DEF Fits, TextLength, Chars, End
  <2> QED BY <2>1 DEF SizeBound, Fits, TextLength, Chars, End
<1>3. CASE UNCHANGED chunks
    BY <1>3, SizeBoundFits
<1>4. CASE k \in 1 .. n /\ chunks'[k] = chunks[k]
    BY <1>1, <1>4, SizeBoundFits
<1>5. CASE chunks'[k] = [first |-> from, last |-> next - 1,
                         section |-> acc_section, index |-> chunk_idx]
  <2>1. PICK a \in Nat, b \in Nat, len \in Nat :
            /\ a = from /\ b = next - 1 /\ len = acc_len
            /\ 1 <= a /\ a <= b /\ b <= Len(blocks)
      BY DEF Shape, TypeOK, Accumulated
  <2>2. Fits(a, b)
      BY <2>1, SizedFits DEF AccSize
  <2> QED BY <2>1, <2>2, <1>5
<1>6. CASE Len(chunks') = n + 1
  <2>1. k \in 1 .. n \/ k = n + 1
      BY <1>1, <1>6
  <2> QED BY <2>1, <1>1, <1>3, <1>4, <1>5, Flushing DEF Shape
<1> QED BY <1>1, <1>3, <1>6, Flushing DEF Shape

LEMMA AccSizeLoop ==
    ASSUME Shape, AccSize, LoopStep
    PROVE  AccSize'
<1>1. acc_len' \in Nat
    BY ShapeStep DEF Next, LoopStep, Shape, TypeOK
<1>2. PICK a \in Nat, b \in Nat, len \in Nat :
          /\ a = from' /\ b = next /\ len = acc_len' /\ next' = b + 1
          /\ 1 <= a /\ from <= a /\ a <= b /\ b <= Len(blocks)
          /\ Len(blocks) \in Nat
    BY <1>1, Looping DEF Shape, TypeOK
<1>3. SUFFICES Sized(a, b, len)
  <2>1. Sized(a, b, len)' <=> Sized(a, b, len)
      BY Looping DEF Sized, TextLength, Chars, End
  <2>2. next' - 1 = b
      BY <1>2
  <2> QED BY <2>1, <2>2, <1>2 DEF AccSize
<1>4. 1 <= a /\ a <= b /\ b <= Len(blocks) /\ Len(blocks) \in Nat
    BY <1>2
<1>5. /\ End(a - 1) \in Nat /\ End(b - 1) \in Nat /\ End(b) \in Nat
  <2>1. /\ a - 1 \in 0 .. Len(blocks) /\ b - 1 \in 0 .. Len(blocks)
        /\ b \in 0 .. Len(blocks)
      BY <1>4
  <2> QED BY <2>1, EndType DEF Shape
<1>6. TextLength(a, b) = End(b) - End(a - 1) + 2 * (b - a)
    BY DEF TextLength, Chars, Separator
<1>7. ASSUME a = b, len = Chars(b, b) PROVE Sized(a, b, len)
  <2>1. len + Separator * (b - a) = TextLength(a, b)
      BY <1>2, <1>5, <1>7 DEF TextLength, Chars, Separator
  <2> QED BY <2>1, <1>2, <1>7 DEF Sized
<1>8. CASE NewSection
  <2>1. a = b /\ len = Chars(b, b)
      BY <1>2, <1>5, <1>8 DEF NewSection, Join, Chars
  <2> QED BY <2>1, <1>7
<1>9. CASE SplitBySize
  <2>1. /\ Chars(a, b - 1) <= config.overlap
        /\ len = Chars(a, b - 1) + Chars(b, b)
                    + (IF a < b THEN Separator ELSE 0)
      BY <1>2, <1>9, Carrying DEF OverlapFrom, Join
  <2>2. CASE a = b
    <3>1. len = Chars(b, b)
        BY <1>2, <1>5, <2>1, <2>2 DEF Chars
    <3> QED BY <3>1, <2>2, <1>7
  <2>3. CASE a < b
    <3>1. len + Separator * ((b - 1) - a) = TextLength(a, b)
      <4>1. len = End(b) - End(a - 1) + 2
          BY <1>5, <2>1, <2>3 DEF Chars, Separator
      <4> QED BY <4>1, <1>4, <1>5, <1>6 DEF Separator
    <3>2. b - 1 \in a .. b
        BY <1>2, <2>3
    <3> QED BY <3>1, <3>2, <2>1 DEF Sized
  <2> QED BY <2>2, <2>3, <1>2
<1>10. CASE AppendBlock
  <2>1. /\ a = from
        /\ len = acc_len + Chars(b, b) + (IF a < b THEN Separator ELSE 0)
      BY <1>2, <1>10 DEF AppendBlock, Join
  <2>2. CASE a = b
    <3>1. acc_len = 0
        BY <1>2, <2>1, <2>2 DEF Shape, Positions, TypeOK
    <3>2. len = Chars(b, b)
        BY <1>2, <1>5, <2>1, <2>2, <3>1 DEF Chars
    <3> QED BY <3>2, <2>2, <1>7
  <2>3. CASE a < b
    <3>1. Accumulated /\ Sized(a, b - 1, acc_len)
        BY <1>2, <2>1, <2>3 DEF AccSize, Accumulated
    <3>2. PICK m \in a .. b - 1 :
              /\ m = a \/ Chars(a, m) <= config.overlap
              /\ acc_len + Separator * (m - a) = TextLength(a, b - 1)
        BY <3>1 DEF Sized
    <3>3. acc_len \in Nat
        BY DEF Shape, TypeOK
    <3>4. len + Separator * (m - a) = TextLength(a, b)
      <4>1. len = acc_len + End(b) - End(b - 1) + 2
          BY <1>5, <2>1, <2>3, <3>3 DEF Chars, Separator
      <4>2. TextLength(a, b - 1)
                = End(b - 1) - End(a - 1) + 2 * ((b - 1) - a)
          BY DEF TextLength, Chars, Separator
      <4>3. acc_len + 2 * (m - a)
                = End(b - 1) - End(a - 1) + 2 * ((b - 1) - a)
          BY <3>2, <4>2 DEF Separator
      <4>4. len + 2 * (m - a) = End(b) - End(a - 1) + 2 * (b - a)
        <5>1. \A e0, e1, e2, n, d \in Int :
                  /\ len = n + e2 - e1 + 2
                  /\ n + 2 * d = e1 - e0 + 2 * ((b - 1) - a)
                  => len + 2 * d = e2 - e0 + 2 * (b - a)
            OBVIOUS
        <5>2. m - a \in Int
            BY <1>4
        <5> QED BY <4>1, <4>3, <5>1, <5>2, <1>5, <3>3
      <4> QED BY <4>4, <1>6 DEF Separator
    <3>5. len <= config.chunk_size
      <4>1. ~(acc_len + Separator + Chars(b, b) > config.chunk_size)
          BY <1>2, <1>10, <3>1 DEF AppendBlock, TooLong
      <4>2. config.chunk_size \in Nat
          BY ConfigsAssumption DEF Shape, TypeOK
      <4> QED BY <4>1, <4>2, <1>5, <2>1, <2>3, <3>3 DEF Chars, Separator
    <3>6. m \in a .. b
        BY <1>2, <3>2
    <3> QED BY <3>2, <3>4, <3>5, <3>6 DEF Sized
  <2> QED BY <2>2, <2>3, <1>2
<1> QED BY <1>8, <1>9, <1>10 DEF LoopStep

LEMMA SizeStep ==
    Shape /\ AccSize /\ SizeBound /\ [Next]_vars => AccSize' /\ SizeBound'
<1> SUFFICES ASSUME Shape, AccSize, SizeBound, [Next]_vars
             PROVE  AccSize' /\ SizeBound'
    OBVIOUS
<1> USE DEF Fits, Sized, TextLength, Chars, End
<1>1. CASE UNCHANGED vars
    BY <1>1 DEF vars, AccSize, SizeBound, Accumulated
<1>2. CASE ReadStep
  <2>1. CASE next = 1
    <3>1. chunks' = <<>> /\ from' = 1 /\ next' = 1
        BY <1>2, <2>1, ReadPhase DEF Shape, Positions
    <3> QED BY <3>1 DEF AccSize, SizeBound, Accumulated
  <2> QED BY <1>1, <1>2, <2>1, ReadPhase
<1>3. CASE LoopStep
  <2>1. CASE NewSection \/ SplitBySize
      BY <1>3, <2>1, Looping, AccSizeLoop, FlushSize
  <2>2. CASE AppendBlock
      BY <1>3, <2>2, Looping, AccSizeLoop DEF SizeBound
  <2> QED BY <1>3, <2>1, <2>2 DEF LoopStep
<1>4. CASE FlushRemaining
  <2>1. /\ UNCHANGED <<config, blocks, from, next, acc_len>>
        /\ FlushChunk /\ Accumulated
      BY <1>4 DEF FlushRemaining, readVars, accVars, Accumulated, Shape,
                  Positions, TypeOK
  <2> QED BY <2>1, FlushSize DEF AccSize, Accumulated
<1> QED BY <1>1, <1>2, <1>3, <1>4 DEF Next, ReadStep, LoopStep

(***************************************************************************)
(* A chunk exceeds chunk_size only by a block nothing could be done about, *)
(* or by the separators inside the text that was carried into it.          *)
(***************************************************************************)
THEOREM SizesBounded == Spec => []SizeBound
<1>1. Init => Shape /\ AccSize /\ SizeBound
    BY ShapeInit DEF Init, AccSize, SizeBound, Accumulated
<1>2. Spec => [](Shape /\ AccSize /\ SizeBound)
    BY <1>1, ShapeStep, SizeStep, PTL DEF Spec
<1> QED BY <1>2, PTL

-----------------------------------------------------------------------------
(***************************************************************************)
(* Text that is lost.                                                      *)
(***************************************************************************)
LEMMA FlushCovers ==
    ASSUME TypeOK, Accumulated, FlushChunk, NEW i \in Nat
    PROVE  /\ Covered(i) => Covered(i)'
           /\ Long /\ i \in from .. next - 1 => Covered(i)'
<1>1. PICK n \in Nat : n = Len(chunks) /\ chunks \in Seq(TextChunk)
                       /\ chunks' \in Seq(TextChunk)
    BY FlushType DEF TypeOK
<1>2. CASE UNCHANGED <<chunks, chunk_idx>> /\ ~Long
    BY <1>2 DEF Covered
<1>3. CASE Len(chunks') = n + 1
  <2>1. /\ \A k \in 1 .. n : chunks'[k] = chunks[k]
        /\ chunks'[n + 1] = [first |-> from, last |-> next - 1,
                             section |-> acc_section, index |-> chunk_idx]
      BY <1>1, <1>3, Flushing
  <2>2. /\ DOMAIN chunks = 1 .. n /\ DOMAIN chunks' = 1 .. n + 1
        /\ 1 .. n \subseteq 1 .. n + 1 /\ n + 1 \in 1 .. n + 1
      BY <1>1, <1>3
  <2>3. Covered(i) => Covered(i)'
      BY <2>1, <2>2 DEF Covered
  <2>4. i \in from .. next - 1 => Covered(i)'
    <3>1. chunks'[n + 1].first = from /\ chunks'[n + 1].last = next - 1
        BY <2>1
    <3> QED BY <2>2, <3>1 DEF Covered
  <2> QED BY <2>3, <2>4
<1> QED BY <1>1, <1>2, <1>3, Flushing

\* A piece too short that ends with its section.
LEMMA DiscardedTail ==
    ASSUME Shape, AccPure, Accumulated, ~Long, EndsSection(next - 1),
           NEW i \in from .. next - 1
    PROVE  ShortTail(i)
<1>1. PICK a \in Nat, b \in Nat :
          /\ a = from /\ b = next - 1
          /\ 1 <= a /\ a <= i /\ i <= b /\ b <= Len(blocks)
    BY DEF Shape, TypeOK, Accumulated
<1>2. a \in 1 .. i /\ b \in i .. Len(blocks)
  <2>1. Len(blocks) \in Nat /\ i \in Int
      BY DEF Shape, TypeOK
  <2> QED BY <2>1, <1>1
<1>3. TextLength(a, b) < config.min_chunk_length
  <2>1. a - 1 \in 0 .. Len(blocks) /\ b \in 0 .. Len(blocks)
      BY <1>2 DEF Shape, TypeOK
  <2>2. TextLength(a, b) \in Int
    <3>1. End(a - 1) \in Nat /\ End(b) \in Nat
        BY <2>1, EndType DEF Shape
    <3> QED BY <3>1 DEF TextLength, Chars, Separator
  <2>3. config.min_chunk_length \in Nat
      BY ConfigsAssumption DEF Shape, TypeOK
  <2> QED BY <1>1, <2>2, <2>3 DEF Long
<1>4. \A j \in a .. b : blocks[j].section = blocks[i].section
    BY <1>1 DEF AccPure
<1>5. EndsSection(b)
    BY <1>1
<1> QED BY <1>2, <1>3, <1>4, <1>5 DEF ShortTail

\* What a split by size discards fits into the overlap, and is carried.
LEMMA SplitCarriesAll ==
    ASSUME Shape, SplitBySize, ~Long,
           config.min_chunk_length <= config.overlap + 1
    PROVE  from' = from
<1>1. PICK a \in Nat, b \in Nat, c \in Nat :
          /\ a = from /\ b = next - 1 /\ c = from'
          /\ a <= c /\ c <= b + 1 /\ OverlapFrom(c)
          /\ (c > from => Chars(c - 1, next - 1) > config.overlap)
  <2>1. from' \in from .. next /\ OverlapFrom(from')
      BY Looping, Carrying DEF LoopStep
  <2> QED BY <2>1 DEF Shape, TypeOK, OverlapFrom
<1>2. 1 <= a /\ a <= b /\ b <= Len(blocks) /\ Len(blocks) \in Nat
    BY <1>1 DEF Shape, TypeOK, SplitBySize, TooLong, Accumulated
<1>3. SUFFICES ASSUME a < c PROVE FALSE
    BY <1>1
<1>4. /\ Chars(c - 1, b) <= Chars(a, b)
      /\ Chars(c - 1, b) \in Int /\ Chars(a, b) \in Int
  <2>1. a <= c /\ c <= b + 1
      BY <1>1
  <2>2. c - 1 \in Nat /\ a <= c - 1 /\ c - 1 <= b + 1
      BY <2>1, <1>3
  <2> QED BY <2>2, <1>2, CharsGrow DEF Shape
<1>5. Chars(a, b) <= TextLength(a, b) /\ TextLength(a, b) \in Int
    BY <1>2, <1>4 DEF TextLength, Separator
<1>6. config.min_chunk_length \in Nat /\ config.overlap \in Nat
    BY ConfigsAssumption DEF Shape, TypeOK
<1>7. TextLength(a, b) < config.min_chunk_length
    BY <1>1, <1>5, <1>6 DEF Long
<1>8. Chars(c - 1, b) > config.overlap
    BY <1>1, <1>3
<1> QED BY <1>4, <1>5, <1>6, <1>7, <1>8

LEMMA TextStep == Shape /\ AccPure /\ TextKept /\ [Next]_vars => TextKept'
<1> SUFFICES ASSUME Shape, AccPure, TextKept, [Next]_vars
             PROVE  TextKept'
    OBVIOUS
<1>1. CASE UNCHANGED vars
    BY <1>1 DEF vars, TextKept, Flushed, Covered, ShortTail, EndsSection,
                TextLength, Chars, End
<1>2. CASE ReadStep
  <2>1. CASE next = 1
    <3>1. from' = 1 /\ next' = 1
        BY <1>2, <2>1, ReadPhase DEF Shape, Positions
    <3>2. DOMAIN blocks' \subseteq Nat \ {0}
      <4>1. blocks' \in Seq(TextBlock)
          BY ShapeStep DEF Shape, TypeOK
      <4> QED BY <4>1
    <3> QED BY <3>1, <3>2 DEF TextKept, Flushed
  <2> QED BY <1>1, <1>2, <2>1, ReadPhase
<1>3. ASSUME LoopStep \/ FlushRemaining PROVE TextKept'
  <2>1. UNCHANGED <<config, blocks>> /\ stage = "chunk"
      BY <1>3, Looping DEF FlushRemaining, readVars
  <2>2. SUFFICES ASSUME config.min_chunk_length <= config.overlap + 1,
                        NEW i \in DOMAIN blocks, Flushed(i)'
                 PROVE  Covered(i)' \/ ShortTail(i)
      BY <2>1 DEF TextKept, ShortTail, EndsSection, TextLength, Chars, End
  <2>3. i \in Nat /\ from \in Nat /\ next \in Nat /\ i <= Len(blocks)
    <3>1. blocks \in Seq(TextBlock)
        BY DEF Shape, TypeOK
    <3>2. DOMAIN blocks = 1 .. Len(blocks)
        BY <3>1
    <3> QED BY <3>1, <3>2 DEF Shape, TypeOK
  <2>4. CASE i < from
    <3>1. Covered(i) \/ ShortTail(i)
        BY <2>1, <2>2, <2>4 DEF TextKept, Flushed
    <3>2. Covered(i) => Covered(i)'
      <4>1. CASE AppendBlock
          BY <4>1 DEF AppendBlock, Covered
      <4>2. CASE ~AppendBlock
        <5>1. Accumulated /\ FlushChunk
            BY <1>3, <4>2, Looping
               DEF LoopStep, FlushRemaining, Accumulated, Shape, Positions,
                   TypeOK
        <5> QED BY <2>3, <5>1, FlushCovers DEF Shape
      <4> QED BY <4>1, <4>2
    <3> QED BY <3>1, <3>2
  <2>5. CASE i >= from
    <3>1. CASE AppendBlock
      <4>1. from' = from /\ stage' = "chunk"
          BY <3>1, <2>1, Carrying, Looping DEF LoopStep
      <4> QED BY <4>1, <2>2, <2>3, <2>5 DEF Flushed
    <3>2. CASE NewSection \/ SplitBySize
      <4>1. Accumulated /\ FlushChunk /\ i < from' /\ from' <= next
            /\ from' \in Nat
          BY <3>2, <2>1, <2>2, <2>3, Looping DEF LoopStep, Flushed
      <4>2. i \in from .. next - 1
          BY <4>1, <2>3, <2>5
      <4>3. CASE Long
          BY <4>1, <4>2, <4>3, <2>3, FlushCovers DEF Shape
      <4>4. CASE ~Long /\ NewSection
        <5>1. EndsSection(next - 1)
          <6>1. next - 1 \in from .. next - 1
              BY <2>3, <4>2
          <6>2. blocks[next - 1].section = acc_section
              BY <6>1 DEF AccPure
          <6>3. blocks[(next - 1) + 1] = Block
              BY <2>3 DEF Block
          <6> QED BY <4>4, <6>2, <6>3
                     DEF NewSection, SectionChanges, EndsSection
        <5> QED BY <4>1, <4>2, <4>4, <5>1, DiscardedTail
      <4>5. CASE ~Long /\ SplitBySize
        <5>1. from' = from
            BY <4>5, <2>2, SplitCarriesAll
        <5> QED BY <5>1, <4>1, <2>3, <2>5
      <4> QED BY <3>2, <4>3, <4>4, <4>5
    <3>3. CASE FlushRemaining
      <4>1. Accumulated /\ FlushChunk /\ i < next
            /\ next - 1 = Len(blocks)
          BY <3>3, <2>2, <2>3
             DEF FlushRemaining, Flushed, Accumulated, Shape, Positions,
                 TypeOK, accVars
      <4>2. i \in from .. next - 1
          BY <4>1, <2>3, <2>5
      <4>3. CASE Long
          BY <4>1, <4>2, <4>3, <2>3, FlushCovers DEF Shape
      <4>4. CASE ~Long
          BY <4>1, <4>2, <4>4, DiscardedTail DEF EndsSection
      <4> QED BY <4>3, <4>4
    <3> QED BY <1>3, <3>1, <3>2, <3>3 DEF LoopStep
  <2> QED BY <2>3, <2>4, <2>5
<1> QED BY <1>1, <1>2, <1>3 DEF Next, ReadStep, LoopStep

(***************************************************************************)
(* With a minimum length not above the overlap the text of a document is   *)
(* in its chunks, apart from short pieces at the end of a section.         *)
(***************************************************************************)
THEOREM TextIsKept == Spec => []TextKept
<1>1. Init => Shape /\ AccPure /\ SectionPure /\ TextKept
    BY ShapeInit DEF Init, AccPure, SectionPure, TextKept
<1>2. Spec => [](Shape /\ AccPure /\ SectionPure /\ TextKept)
    BY <1>1, ShapeStep, SectionStep, TextStep, PTL DEF Spec
<1> QED BY <1>2, PTL

=============================================================================
