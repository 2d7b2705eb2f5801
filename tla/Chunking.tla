------------------------------- MODULE Chunking -------------------------------
(***************************************************************************)
(* How the text of a document is cut into chunks.  A text is a sequence of *)
(* characters of a few kinds; a piece of it is the sequence of its         *)
(* positions, so that one can tell what a chunk holds and what was lost.   *)
(* Markdown is cut by lines, a table by rows, a parsed page by its blocks. *)
(***************************************************************************)
EXTENDS Integers, Sequences, FiniteSets, FiniteSetsExt, SequencesExt, Lists

CONSTANTS
    Texts,          \* sequences of "x", " ", "newline" and "#" (a heading mark and its space)
    Modes,          \* split modes tried: "fixed", "sliding", "paragraph", "heading"
    Separators,     \* of rules: sets of characters after which a text may be cut
    Sizes, Overlaps,\* chunk_size (0 stands for a missing one) and chunk_overlap of the rules
    DefaultOverlap, \* DEFAULT_CHUNK_OVERLAP
    Pages,          \* Markdown: sequences of "h1", "h2", "line", "blank" and "fence"
    PageSizes,      \* chunk_size of Markdown, in lines
    TableSizes,     \* most rows of a piece of a table, its header included
    Layouts         \* parsed pages: sequences of text, table and image blocks

ASSUME ChunkingAssumption ==
    /\ Texts \subseteq Seq({"x", " ", "newline", "#"})
    /\ Sizes \subseteq Nat \ {0} /\ Overlaps \subseteq Nat /\ DefaultOverlap \in Nat
    /\ Pages \subseteq Seq({"h1", "h2", "line", "blank", "fence"})
    /\ PageSizes \subseteq Nat \ {0} /\ TableSizes \subseteq Nat \ {0}
    /\ Layouts \subseteq Seq([type : {"text"}, text : Seq({"x", " ", "newline", "#"})]
                            \cup [type : {"table"}, rows : Nat] \cup [type : {"image"}])

VARIABLES
    input, \* what is cut, and the rules
    is_cut,
    chunks \* the chunks, once it is cut

chunk_vars == <<input, is_cut, chunks>>

-----------------------------------------------------------------------------
(* Pieces of a text *)

Blank(t, i) == t[i] \in {" ", "newline"}
Positions(t) == [i \in DOMAIN t |-> i]
IsBlank(t, piece) == \A i \in DOMAIN piece : Blank(t, piece[i])

Strip(t, piece) ==
    LET inked == {i \in DOMAIN piece : ~Blank(t, piece[i])} IN
    IF inked = {} THEN <<>> ELSE SubSeq(piece, Min(inked), Max(inked))

\* The parts of piece that start at the indices of starts, and at its first.
CutAt(piece, starts) ==
    LET from == InOrder(starts \cup {1}) IN
    IF piece = <<>> THEN <<>>
    ELSE [k \in DOMAIN from |-> SubSeq(piece, from[k], IF k = Len(from) THEN Len(piece) ELSE from[k + 1] - 1)]

\* _clamp_chunk_params.
Clamp(size, overlap) ==
    LET s == IF size < 1 THEN 1 ELSE size
    IN  <<s, IF overlap >= s THEN s - 1 ELSE overlap>>

\* Windows of size characters, each overlap before the end of the last one;
\* none starts after one that reaches the end.
Windows(piece, size, overlap) ==
    LET step == IF size > overlap THEN size - overlap ELSE 1
        all == {k \in 0..Len(piece) : k = 0 \/ (k - 1) * step + size < Len(piece)}
        last == Max(all)
    IN  [k \in 1..(last + 1) |->
            SubSeq(piece, (k - 1) * step + 1, Min({(k - 1) * step + size, Len(piece)}))]

\* _recursive_split: separators stay with the text before them.
Units(t, piece, separators) ==
    CutAt(piece, {i \in 2..Len(piece) : t[piece[i - 1]] \in separators})

Tail_(piece, n) == SubSeq(piece, Len(piece) - Min({n, Len(piece)}) + 1, Len(piece))

Inked(t, pieces) ==
    LET stripped == [k \in DOMAIN pieces |-> Strip(t, pieces[k])]
    IN  Sift(stripped, {k \in DOMAIN pieces : stripped[k] # <<>>})

\* What is collected goes out, and starts the next chunk with its end.
Flushed(t, acc) == acc.out \o Inked(t, <<acc.buf>>)
Overlapping(out, unit, overlap) ==
    IF overlap > 0 /\ out # <<>> THEN Tail_(Last(out), overlap) \o unit ELSE unit

\* (Mutant: what was collected before a long unit is not kept.)
AddDropping(t, acc, unit, size, overlap) ==
    IF Len(acc.buf) + Len(unit) <= size THEN [acc EXCEPT !.buf = @ \o unit]
    ELSE IF Len(unit) > size
    THEN [out |-> acc.out \o Inked(t, Windows(unit, size, overlap)), buf |-> <<>>]
    ELSE [out |-> Flushed(t, acc), buf |-> Overlapping(Flushed(t, acc), unit, overlap)]

\* _split_fixed: units are collected up to the size; a longer unit is cut into
\* windows; a unit that does not fit starts with the end of the last chunk.
Add(t, acc, unit, size, overlap) ==
    IF Len(acc.buf) + Len(unit) <= size THEN [acc EXCEPT !.buf = @ \o unit]
    ELSE IF Len(unit) > size
    THEN [out |-> Flushed(t, acc) \o Inked(t, Windows(unit, size, overlap)), buf |-> <<>>]
    ELSE [out |-> Flushed(t, acc), buf |-> Overlapping(Flushed(t, acc), unit, overlap)]

Fixed(t, piece, size, overlap, separators) ==
    LET units == Units(t, piece, separators)
        split[k \in 0..Len(units)] ==
            IF k = 0 THEN [out |-> <<>>, buf |-> <<>>] ELSE Add(t, split[k - 1], units[k], size, overlap)
    IN  Flushed(t, split[Len(units)])

\* _split_by_heading: before a mark that begins a line.
HeadingParts(t) ==
    CutAt(Positions(t), {i \in DOMAIN t : t[i] = "#" /\ (i = 1 \/ t[i - 1] = "newline")})

\* _split_by_paragraph: at blank text with two newlines in it.
ParagraphParts(t) ==
    CutAt(Positions(t), {i \in 2..Len(t) : ~Blank(t, i) /\
        \E j \in 1..i : /\ \A k \in j..(i - 1) : Blank(t, k)
                        /\ Cardinality({k \in j..(i - 1) : t[k] = "newline"}) >= 2})

\* _split_text_with_mode: a part that is too long is cut again.
Refine(t, part, size, overlap, separators) ==
    IF Len(part) <= size THEN Inked(t, <<part>>) ELSE Fixed(t, part, size, overlap, separators)
Split(t, mode, size, overlap, separators) ==
    LET all == Positions(t)
        parts == CASE mode = "heading" -> Inked(t, HeadingParts(t))
                   [] mode = "paragraph" -> Inked(t, ParagraphParts(t))
                   [] mode = "sliding" -> Windows(all, size, overlap)
                   [] OTHER -> Fixed(t, all, size, overlap, separators)
    IN  FlattenSeq([k \in DOMAIN parts |-> Refine(t, parts[k], size, overlap, separators)])

\* ensure_chunk_coverage counts characters, whatever their order.
Covered(t, pieces) ==
    LET held == FlattenSeq(pieces)
        Source(ch) == Cardinality({i \in DOMAIN t : t[i] = ch})
        Found(ch) == Min({Source(ch), Cardinality({i \in DOMAIN held : t[held[i]] = ch})})
    IN  100 * (Found("x") + Found("#")) >= 95 * (Source("x") + Source("#"))

\* split_text: an overlap of 0 is taken for a missing one.  Chunks that lose
\* text are thrown away for sliding ones.
EffectiveOverlap(r) == Clamp(r.size, IF r.overlap = 0 THEN DefaultOverlap ELSE r.overlap)[2]

SplitByRules(t, r) ==
    Split(t, r.mode, Clamp(r.size, r.overlap)[1], EffectiveOverlap(r), r.separators)

SplitText(t, r) ==
    IF IsBlank(t, Positions(t)) THEN <<>>
    ELSE IF Covered(t, SplitByRules(t, r)) THEN SplitByRules(t, r)
    ELSE SplitByRules(t, [r EXCEPT !.mode = "sliding"])

-----------------------------------------------------------------------------
(* Markdown, by lines *)

IsHeading(line) == line \in {"h1", "h2"}
LevelOfLine(line) == IF line = "h1" THEN 1 ELSE 2

\* Lines between two fences, or after one that is never closed, and the fences.
InFence(page, i) ==
    \/ page[i] = "fence"
    \/ Cardinality({j \in 1..i : page[j] = "fence"}) % 2 = 1
Heading(page, i) == IsHeading(page[i]) /\ ~InFence(page, i)

\* (Mutant: the heading of the same level stays on the path.)
PathWithSiblings(page, path, i) ==
    Sift(path, {k \in DOMAIN path : LevelOfLine(page[path[k]]) <= LevelOfLine(page[i])}) \o <<i>>

\* _markdown_sections: a section begins at a heading; its path is that of the
\* section before, without the headings that are not above this one.
PathTo(page, path, i) ==
    Sift(path, {k \in DOMAIN path : LevelOfLine(page[path[k]]) < LevelOfLine(page[i])}) \o <<i>>

InkedLines(page, lines) == Sift(lines, {k \in DOMAIN lines : page[lines[k]] # "blank"})

EndSection(page, acc) ==
    IF InkedLines(page, acc.lines) = <<>> THEN acc.done
    ELSE Append(acc.done, [lines |-> acc.lines, path |-> acc.path])
AddLine(page, acc, i) ==
    IF Heading(page, i) THEN [done |-> EndSection(page, acc), lines |-> <<i>>, path |-> PathTo(page, acc.path, i)]
    ELSE [acc EXCEPT !.lines = Append(@, i)]
Sections(page) ==
    LET read[i \in 0..Len(page)] ==
            IF i = 0 THEN [done |-> <<>>, lines |-> <<>>, path |-> <<>>] ELSE AddLine(page, read[i - 1], i)
    IN  EndSection(page, read[Len(page)])

\* _coalesce_heading_only_sections: a lone heading goes to the next section, the
\* last ones to the section before.
LoneHeading(page, section) ==
    LET ink == InkedLines(page, section.lines) IN Len(ink) = 1 /\ Heading(page, ink[1])
MergeSection(page, acc, s) ==
    IF LoneHeading(page, s) THEN [acc EXCEPT !.waiting = @ \o s.lines]
    ELSE [done |-> Append(acc.done, [s EXCEPT !.lines = acc.waiting \o @]), waiting |-> <<>>]
Coalesce(page, sections) ==
    LET merged[k \in 0..Len(sections)] ==
            IF k = 0 THEN [done |-> <<>>, waiting |-> <<>>] ELSE MergeSection(page, merged[k - 1], sections[k])
        all == merged[Len(sections)]
        n == Len(all.done)
    IN  IF Len(sections) <= 1 THEN sections
        ELSE IF all.waiting = <<>> THEN all.done
        ELSE IF n = 0 THEN <<[lines |-> all.waiting, path |-> Last(sections).path]>>
        ELSE [all.done EXCEPT ![n].lines = @ \o all.waiting]

\* _split_markdown_blocks: paragraphs, and fences with all that is in them.
Open(page, block) ==
    block # <<>> /\ page[block[1]] = "fence" /\ ~(Len(block) > 1 /\ page[Last(block)] = "fence")
Closed(page, block) == block # <<>> /\ page[block[1]] = "fence" /\ ~Open(page, block)
AddToBlocks(page, acc, i) ==
    LET block == IF acc = <<>> THEN <<>> ELSE Last(acc) IN
    IF Open(page, block) THEN Append(Front(acc), Append(block, i))
    ELSE IF page[i] = "blank" THEN Append(acc, <<>>)
    ELSE IF page[i] = "fence" \/ Closed(page, block) \/ acc = <<>> THEN Append(acc, <<i>>)
    ELSE Append(Front(acc), Append(block, i))
Blocks(page, lines) ==
    LET cut[k \in 0..Len(lines)] == IF k = 0 THEN <<>> ELSE AddToBlocks(page, cut[k - 1], lines[k])
        all == cut[Len(lines)]
    IN  Sift(all, {k \in DOMAIN all : all[k] # <<>>})

\* _pack_markdown_blocks: blocks are collected up to the size; a fence that is
\* longer stays whole, a paragraph that is longer is cut.
CutBlock(block, size) == Windows(block, size, 0)
Packed(acc) == IF acc.buf = <<>> THEN acc.out ELSE Append(acc.out, acc.buf)
PackBlock(page, acc, block, size) ==
    IF Len(acc.buf) + Len(block) <= size THEN [acc EXCEPT !.buf = @ \o block]
    ELSE IF Len(block) <= size THEN [out |-> Packed(acc), buf |-> block]
    ELSE [out |-> Packed(acc) \o IF page[block[1]] = "fence" THEN <<block>> ELSE CutBlock(block, size),
          buf |-> <<>>]
Pack(page, lines, size) ==
    LET blocks == Blocks(page, lines)
        packed[k \in 0..Len(blocks)] ==
            IF k = 0 THEN [out |-> <<>>, buf |-> <<>>] ELSE PackBlock(page, packed[k - 1], blocks[k], size)
    IN  Packed(packed[Len(blocks)])

\* _split_markdown.
SplitMarkdown(page, size) ==
    LET sections == Coalesce(page, Sections(page)) IN
    FlattenSeq([k \in DOMAIN sections |->
        LET parts == Pack(page, sections[k].lines, size) IN
        [j \in DOMAIN parts |-> [lines |-> parts[j], path |-> sections[k].path]]])

-----------------------------------------------------------------------------
(* Tables *)

\* split_table_with_header: rows 2.. of n, each piece with row 1 before them.
TablePieces(n, size) ==
    IF n <= size THEN <<[k \in 1..n |-> k]>>
    ELSE LET rows == Windows([k \in 1..(n - 1) |-> k + 1], IF size > 1 THEN size - 1 ELSE 1, 0)
         IN  [k \in DOMAIN rows |-> <<1>> \o rows[k]]

-----------------------------------------------------------------------------
(* Parsed pages *)

\* _split_layout_aware: a table is cut by rows, an image is a chunk whatever its
\* caption, a text is cut by the rules, or left out when nothing is in it (the
\* blocks come stripped from parse_serialized_blocks).
BlockPieces(block, r, size) ==
    CASE block.type = "table" -> TablePieces(block.rows, size)
      [] block.type = "image" -> <<<<1>>>>
      [] OTHER -> IF block.text = <<>> THEN <<>> ELSE SplitByRules(block.text, r)

SplitLayout(blocks, r, size) ==
    FlattenSeq([k \in DOMAIN blocks |->
        LET pieces == BlockPieces(blocks[k], r, size) IN
        [j \in DOMAIN pieces |-> [block |-> k, piece |-> pieces[j]]]])

-----------------------------------------------------------------------------
(* Specification *)

Rules == [mode : Modes, separators : Separators, size : Sizes, overlap : Overlaps]

ChunkInit ==
    /\ \/ \E t \in Texts, r \in Rules : input = [kind |-> "text", text |-> t, rules |-> r]
       \/ \E p \in Pages, n \in PageSizes : input = [kind |-> "markdown", page |-> p, size |-> n]
       \/ \E n \in 2..6, size \in TableSizes : input = [kind |-> "table", rows |-> n, size |-> size]
       \/ \E blocks \in Layouts, r \in Rules, size \in TableSizes :
             input = [kind |-> "layout", blocks |-> blocks, rules |-> r, size |-> size]
    /\ is_cut = FALSE /\ chunks = <<>>

CutText == input.kind = "text" /\ chunks' = SplitText(input.text, input.rules)
CutMarkdown == input.kind = "markdown" /\ chunks' = SplitMarkdown(input.page, input.size)
CutTable == input.kind = "table" /\ chunks' = TablePieces(input.rows, input.size)
CutLayout == input.kind = "layout" /\ chunks' = SplitLayout(input.blocks, input.rules, input.size)

ChunkNext ==
    /\ ~is_cut /\ is_cut' = TRUE /\ UNCHANGED input
    /\ CutText \/ CutMarkdown \/ CutTable \/ CutLayout
ChunkSpec == ChunkInit /\ [][ChunkNext]_chunk_vars

Cut(kind) == input.kind = kind /\ is_cut

-----------------------------------------------------------------------------
(* Properties *)

Increasing(s) == \A i \in 2..Len(s) : s[i - 1] < s[i]
Shared(a, b) == ToSet(a) \cap ToSet(b)

\* No character that can be seen is lost, in whatever mode: each is in a chunk,
\* each chunk holds text in its order, and what comes before its characters is in
\* it or in a chunk before it.  (A chunk may hold nothing but the overlap again,
\* and, when a part that is too long is cut a second time, end before the one
\* ahead of it does.)  The coverage check has nothing to repair (split_text,
\* _split_text_with_mode, _split_fixed).
NothingLost ==
    Cut("text") =>
        /\ IsBlank(input.text, Positions(input.text)) \/ Covered(input.text, SplitByRules(input.text, input.rules))
        /\ {i \in DOMAIN input.text : ~Blank(input.text, i)} \subseteq UNION {ToSet(chunks[k]) : k \in DOMAIN chunks}
        /\ \A k \in DOMAIN chunks : Increasing(chunks[k])
        /\ \A k \in DOMAIN chunks : \A i \in ToSet(chunks[k]) : \A j \in 1..(i - 1) :
              Blank(input.text, j) \/ \E l \in 1..k : j \in ToSet(chunks[l])

\* A chunk is longer than the size by no more than the overlap, and no two of
\* them share more than the overlap (_split_fixed, _split_sliding).
ChunkBounds ==
    Cut("text") =>
        LET size == Max({1, input.rules.size})
            overlap == Min({size - 1, IF input.rules.overlap = 0 THEN DefaultOverlap ELSE input.rules.overlap}) IN
        /\ \A k \in DOMAIN chunks : Len(chunks[k]) <= size + overlap
        /\ \A k, l \in DOMAIN chunks : k # l => Cardinality(Shared(chunks[k], chunks[l])) <= overlap

\* The chunks of a text are the text, within the rules (split_text).
TextKept == NothingLost /\ ChunkBounds

\* The headings above a line: no later one, up to the line, is as high.
Above(page, i) ==
    InOrder({h \in 1..(i - 1) :
        /\ Heading(page, h)
        /\ \A j \in (h + 1)..i : Heading(page, j) => LevelOfLine(page[j]) > LevelOfLine(page[h])})

\* Every line of a page is in one chunk, in order; a fence is never cut; and the
\* heading path of a chunk is that of each of its lines that is not a heading,
\* although sections are packed, cut and merged (_markdown_sections,
\* _coalesce_heading_only_sections, _pack_markdown_blocks).
MarkdownKept ==
    Cut("markdown") =>
        LET page == input.page IN
        /\ LET all == FlattenSeq([k \in DOMAIN chunks |-> chunks[k].lines]) IN
           /\ Increasing(all)
           /\ {i \in DOMAIN page : page[i] # "blank"} \subseteq ToSet(all)
        /\ \A k \in DOMAIN chunks : \A i \in DOMAIN page \ {1} :
              /\ i \in ToSet(chunks[k].lines)
              /\ Cardinality({j \in 1..(i - 1) : page[j] = "fence"}) % 2 = 1
              => i - 1 \in ToSet(chunks[k].lines)
        /\ \A k \in DOMAIN chunks : \A i \in ToSet(chunks[k].lines) :
              \/ Heading(page, i)
              \/ chunks[k].path = Above(page, i)

\* The pieces of a table have its header, its other rows once each, and no more
\* rows than fit unless one row is too long (split_table_with_header).
TableKept ==
    Cut("table") =>
        /\ \A k \in DOMAIN chunks : chunks[k][1] = 1 /\ (Len(chunks[k]) > 2 => Len(chunks[k]) <= input.size)
        /\ FlattenSeq([k \in DOMAIN chunks |-> Tail(chunks[k])]) = [k \in 1..(input.rows - 1) |-> k + 1]

\* The blocks of a page come in their order, none is missing unless it is empty,
\* and what is in a block is in its chunks: text that can be seen, all rows, the
\* image (_split_layout_aware).
BlocksKept ==
    Cut("layout") =>
        /\ \A k \in 2..Len(chunks) : chunks[k - 1].block <= chunks[k].block
        /\ \A n \in DOMAIN input.blocks :
              LET block == input.blocks[n]
                  found == UNION {ToSet(chunks[k].piece) : k \in {j \in DOMAIN chunks : chunks[j].block = n}}
              IN  CASE block.type = "table" -> found = 1..block.rows
                    [] block.type = "image" -> found = {1}
                    [] OTHER -> {i \in DOMAIN block.text : ~Blank(block.text, i)} \subseteq found

\* The chunks of a text, of Markdown, of a table and of a parsed page are that
\* text within the rules, each piece under its headings or its header
\* (split_text, _split_markdown, split_table_with_header, _split_layout_aware).
ChunkingKept == TextKept /\ MarkdownKept /\ TableKept /\ BlocksKept
=============================================================================
