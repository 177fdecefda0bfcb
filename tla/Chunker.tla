------------------------------- MODULE Chunker -------------------------------
(***************************************************************************)
(* The worker's ETL step: the elements of a PDF are filtered, turned into  *)
(* blocks of text under their section title, and grouped into the chunks   *)
(* that are embedded.  A text is its number of characters; the accumulated *)
(* texts are always the blocks from .. next - 1, so a chunk is an interval *)
(* of blocks.                                                              *)
(***************************************************************************)
EXTENDS Integers, Sequences

CONSTANTS
    Configs,   \* settings of a worker: [chunk_size, overlap, min_chunk_length]
    Titles,    \* texts of Title elements
    NoTitle,   \* the section before the first title
    Sizes,     \* numbers of characters a text may have
    MaxBlocks  \* bound on the blocks of a document

ASSUME ConfigsAssumption ==
    /\ Configs \subseteq
           [chunk_size : Nat, overlap : Nat, min_chunk_length : Nat]
    /\ Sizes \subseteq Nat \ {0}
    /\ NoTitle \notin Titles
    /\ MaxBlocks \in Nat

VARIABLES
    config,
    stage,            \* where process_pdf is
    kept,             \* whether an element passed the filter
    current_section,
    blocks,
    from, next,       \* first accumulated block, block of the loop
    acc_section, acc_len,
    chunk_idx,
    chunks

vars == <<config, stage, kept, current_section, blocks, from, next,
          acc_section, acc_len, chunk_idx, chunks>>
readVars == <<kept, current_section, blocks>>
accVars == <<from, next, acc_section, acc_len>>

Sections == Titles \cup {NoTitle}
Separator == 2  \* "\n\n"

\* end counts the text up to the end of a block; a chunk is an interval.
TextBlock == [section : Sections, end : Nat]
TextChunk == [first : Nat, last : Nat, section : Sections, index : Nat]

Init ==
    /\ config \in Configs
    /\ stage = "read" /\ kept = FALSE
    /\ current_section = NoTitle /\ blocks = <<>>
    /\ from = 1 /\ next = 1
    /\ acc_section = NoTitle /\ acc_len = 0
    /\ chunk_idx = 0 /\ chunks = <<>>

\* Characters of the blocks i .. j alone, and joined.
End(i) == IF i = 0 THEN 0 ELSE blocks[i].end
Chars(i, j) == End(j) - End(i - 1)
TextLength(i, j) == Chars(i, j) + Separator * (j - i)

-----------------------------------------------------------------------------
(***************************************************************************)
(* extract_elements, filter_elements and the first loop of chunk_elements. *)
(***************************************************************************)
\* A document that cannot be parsed raises.
ExtractionFails ==
    /\ stage = "read" /\ stage' = "failed"
    /\ UNCHANGED <<config, readVars, accVars, chunk_idx, chunks>>

\* filter_elements drops headers, footers, page breaks, images and blank
\* elements, which leave no trace; a title or a text passes.
Keep == stage = "read" /\ kept' = TRUE

ReadTitle ==
    /\ Keep
    /\ \E t \in Titles : current_section' = t
    /\ UNCHANGED <<config, stage, blocks, accVars, chunk_idx, chunks>>

ReadText ==
    /\ Keep /\ Len(blocks) < MaxBlocks
    /\ \E size \in Sizes :
           blocks' = Append(blocks, [section |-> current_section,
                                     end |-> End(Len(blocks)) + size])
    /\ UNCHANGED <<config, stage, current_section, accVars, chunk_idx,
                   chunks>>

\* Nothing kept returns early, before chunk_elements checks the settings.
EndOfFile ==
    /\ stage = "read"
    /\ \/ ~kept /\ stage' = "done" /\ UNCHANGED acc_section
       \/ /\ kept /\ config.chunk_size <= config.overlap
          /\ stage' = "failed" /\ UNCHANGED acc_section
       \/ /\ kept /\ config.chunk_size > config.overlap /\ blocks = <<>>
          /\ stage' = "done" /\ UNCHANGED acc_section
       \/ /\ kept /\ config.chunk_size > config.overlap /\ blocks # <<>>
          /\ stage' = "chunk" /\ acc_section' = blocks[1].section
    /\ UNCHANGED <<config, readVars, from, next, acc_len, chunk_idx, chunks>>

-----------------------------------------------------------------------------
(***************************************************************************)
(* The second loop of chunk_elements.                                      *)
(***************************************************************************)
Block == blocks[next]
Accumulated == from < next

\* Mutant of FlushChunk: a discarded chunk uses up an index.
FlushCounting ==
    /\ chunk_idx' = chunk_idx + 1
    /\ \/ /\ TextLength(from, next - 1) >= config.min_chunk_length
          /\ chunks' = Append(chunks, [first |-> from, last |-> next - 1,
                                       section |-> acc_section,
                                       index |-> chunk_idx])
       \/ /\ TextLength(from, next - 1) < config.min_chunk_length
          /\ UNCHANGED chunks

\* _flush_chunk: a chunk shorter than min_chunk_length is discarded.
FlushChunk ==
    \/ /\ TextLength(from, next - 1) >= config.min_chunk_length
       /\ chunks' = Append(chunks, [first |-> from, last |-> next - 1,
                                    section |-> acc_section,
                                    index |-> chunk_idx])
       /\ chunk_idx' = chunk_idx + 1
    \/ /\ TextLength(from, next - 1) < config.min_chunk_length
       /\ UNCHANGED <<chunks, chunk_idx>>

\* Mutants of OverlapFrom: the budget is checked before the block is counted;
\* nothing is carried.
OverlapBeyond(i) ==
    /\ i \in from .. next
    /\ Chars(i + 1, next - 1) <= config.overlap \/ i = next
    /\ i > from => Chars(i, next - 1) > config.overlap
OverlapNone(i) == i = next

\* _overlap_carry goes back from the last accumulated block and stops at the
\* first that does not fit into the overlap: i is the last one that does.
OverlapFrom(i) ==
    /\ i \in from .. next
    /\ Chars(i, next - 1) <= config.overlap
    /\ i > from => Chars(i - 1, next - 1) > config.overlap

\* The block joins the blocks i .. next - 1, which count n characters.
Join(i, n) ==
    /\ from' = i
    /\ next' = next + 1
    /\ acc_len' = n + Chars(next, next) + (IF i < next THEN Separator ELSE 0)

SectionChanges == Accumulated /\ Block.section # acc_section

\* Mutant of TooLong: the separator is not counted.
TooLongWithoutSeparator ==
    Accumulated /\ acc_len + Chars(next, next) > config.chunk_size

TooLong ==
    Accumulated /\ acc_len + Separator + Chars(next, next) > config.chunk_size

LoopOverBlocks == stage = "chunk" /\ next <= Len(blocks)

\* Mutant of NewSection: text is carried across sections.
NewSectionCarrying ==
    /\ LoopOverBlocks /\ SectionChanges
    /\ FlushChunk
    /\ \E i \in from .. next : OverlapFrom(i) /\ Join(i, Chars(i, next - 1))
    /\ acc_section' = Block.section
    /\ UNCHANGED <<config, stage, readVars>>

NewSection ==
    /\ LoopOverBlocks /\ SectionChanges
    /\ FlushChunk
    /\ Join(next, 0)
    /\ acc_section' = Block.section
    /\ UNCHANGED <<config, stage, readVars>>

SplitBySize ==
    /\ LoopOverBlocks /\ ~SectionChanges /\ TooLong
    /\ FlushChunk
    /\ \E i \in from .. next : OverlapFrom(i) /\ Join(i, Chars(i, next - 1))
    /\ acc_section' = Block.section
    /\ UNCHANGED <<config, stage, readVars>>

AppendBlock ==
    /\ LoopOverBlocks /\ ~SectionChanges /\ ~TooLong
    /\ Join(from, acc_len)
    /\ UNCHANGED <<config, stage, readVars, acc_section, chunk_idx, chunks>>

FlushRemaining ==
    /\ stage = "chunk" /\ next > Len(blocks)
    /\ FlushChunk
    /\ stage' = "done"
    /\ UNCHANGED <<config, readVars, accVars>>

Next ==
    \/ ExtractionFails \/ ReadTitle \/ ReadText \/ EndOfFile
    \/ NewSection \/ SplitBySize \/ AppendBlock \/ FlushRemaining

Spec == Init /\ [][Next]_vars

-----------------------------------------------------------------------------
TypeOK ==
    /\ config \in Configs
    /\ stage \in {"read", "chunk", "done", "failed"}
    /\ kept \in BOOLEAN
    /\ current_section \in Sections /\ acc_section \in Sections
    /\ blocks \in Seq(TextBlock)
    /\ from \in 1 .. next /\ next \in 1 .. Len(blocks) + 1
    /\ acc_len \in Nat
    /\ chunks \in Seq(TextChunk)
    /\ chunk_idx \in 0 .. Len(chunks)

(***************************************************************************)
(* The section title stored with a chunk is that of all its text: overlap  *)
(* is never carried over a section change (docs/adr/011-smart-chunking.md),*)
(* although the flush takes the title from a variable the loop maintains.  *)
(***************************************************************************)
SectionPure ==
    \A k \in DOMAIN chunks : \A i \in chunks[k].first .. chunks[k].last :
        blocks[i].section = chunks[k].section

(***************************************************************************)
(* Chunks come in reading order with consecutive indexes, which the point  *)
(* ids are made of; each ends with text no earlier chunk has, and repeats  *)
(* at most overlap characters of the chunk before it, of its own section.  *)
(***************************************************************************)
ChunksAdvance ==
    \A k \in DOMAIN chunks :
        /\ chunks[k].index = k - 1
        /\ chunks[k].first <= chunks[k].last
        /\ k > 1 =>
              LET previous == chunks[k - 1]
              IN /\ previous.last < chunks[k].last
                 /\ previous.first <= chunks[k].first
                 /\ chunks[k].first <= previous.last =>
                       /\ Chars(chunks[k].first, previous.last)
                             <= config.overlap
                       /\ previous.section = chunks[k].section

(***************************************************************************)
(* Text is lost only at the end of a section, in a piece shorter than      *)
(* min_chunk_length: when a split by size discards a chunk, all of it is   *)
(* carried into the next one.  This needs a minimum not above the overlap, *)
(* as in the default settings; the code does not ask for it.               *)
(***************************************************************************)
Covered(i) ==
    \E k \in DOMAIN chunks : i \in chunks[k].first .. chunks[k].last

EndsSection(i) ==
    i = Len(blocks) \/ blocks[i + 1].section # blocks[i].section

ShortTail(i) ==
    \E a \in 1 .. i, b \in i .. Len(blocks) :
        /\ EndsSection(b)
        /\ TextLength(a, b) < config.min_chunk_length
        /\ \A j \in a .. b : blocks[j].section = blocks[i].section

Flushed(i) == i < IF stage = "done" THEN next ELSE from

TextKept ==
    config.min_chunk_length <= config.overlap + 1 =>
        \A i \in DOMAIN blocks :
            Flushed(i) => Covered(i) \/ ShortTail(i)

(***************************************************************************)
(* How far chunk_size is exceeded: by a single block, by one block after   *)
(* the carried text (it is not checked again), and otherwise by at most    *)
(* the separators inside the carried text, which acc_len leaves out.       *)
(***************************************************************************)
SizeBound ==
    \A k \in DOMAIN chunks :
        LET first == chunks[k].first
            last == chunks[k].last
            excess == TextLength(first, last) - config.chunk_size
        IN \/ excess <= 0
           \/ first = last
           \/ Chars(first, last - 1) <= config.overlap
           \/ \E m \in first .. last :
                  /\ Chars(first, m) <= config.overlap
                  /\ excess <= Separator * (m - first)

=============================================================================
