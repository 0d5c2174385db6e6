-------------------------------- MODULE Parsers --------------------------------
(***************************************************************************)
(* How the adapters turn what a parser reads of a file into blocks.  An     *)
(* item is one thing the parser reports:                                    *)
(*   [label, line, title, level, page, size, more, band, wide, hints]       *)
(* with its label, first line, heading level, page, tokens, the lines below *)
(* the first one if there are any ("mark": the last one ends like a         *)
(* reference number), the horizontal band of the page its box lies in       *)
(* (0: it has none, 1: the page edge), whether the box is a wide one, and   *)
(* the headings attached to it.                                             *)
(* Every adapter carries the path of the last heading to the blocks below.  *)
(***************************************************************************)
EXTENDS Blocks

CONSTANTS
    TextTokens,  \* PipelineConfig.max_tokens: what the markdown reader puts into one block
    EdgeItems    \* the paragraphs that max_header_footer_lines, three lines, hold

ASSUME ReaderLimits == TextTokens \in Nat \ {0} /\ EdgeItems \in 1..3

Label == {"text", "title", "section_header", "list", "picture"} \cup BlockType
Item == [label : Label, line : Line, title : Title, level : Nat, page : Nat, size : Nat,
         more : {"none", "more", "mark"}, band : 0..2, wide : BOOLEAN, hints : Seq(Title)]

\* normalized_block_type and the heading and figure labels of the adapters
TypeOf(label) ==
    CASE label = "text" -> "paragraph"
      [] label \in {"title", "section_header"} -> "heading"
      [] label = "list" -> "list_item"
      [] label = "picture" -> "figure"
      [] OTHER -> label

\* The label and the rest of the first line, and the lines below if there are any
TextOf(k, line, more) ==
    <<[of |-> k, part |-> "label"],
      [of |-> k, part |-> IF line \in EndsAsJunk THEN "mark" ELSE "rest"]>>
        \o (IF more = "none" THEN <<>> ELSE <<[of |-> k, part |-> more]>>)
\* reading_order is the index of the item; the id is made of page, order and type.
BlockOf(item, k, page, type, path) ==
    [id |-> k, page |-> page, order |-> k, type |-> type,
     line |-> IF type = "figure" /\ item.line = "blank" THEN "phrase" ELSE item.line,
     title |-> item.title, path |-> path, size |-> item.size,
     band |-> item.band, wide |-> item.wide, sheet |-> <<>>,
     text |-> TextOf(k, item.line, item.more)]

\* heading_stack[:level - 1] + [title]
Push(stack, item) == Append(SubSeq(stack, 1, Min({item.level - 1, Len(stack)})), item.title)

\* The adapters that see no boxes on the page
NoBox(b) == [b EXCEPT !.band = 0, !.wide = FALSE]

(***************************************************************************)
(* Folds over the items: the stack of headings and the blocks so far        *)
(***************************************************************************)
Scan == [stack : Seq(Title), blocks : Seq(Block), page : Nat]
Nothing == [stack |-> <<>>, blocks |-> <<>>, page |-> 0]
Positions(items) == [k \in DOMAIN items |-> k]
Emit(acc, stack, b) == [acc EXCEPT !.stack = stack, !.blocks = Append(@, b)]
\* Text is dropped when it is blank; a figure without words gets a placeholder.
Silent(item) == item.line = "blank" /\ TypeOf(item.label) # "figure"

\* An adapter goes over the items; its step reads one of them.
Scanned(Read(_, _, _), items) ==
    Walk(Scan, LAMBDA acc, k : Read(acc, items, k), Nothing, Positions(items)).blocks

\* document_from_docling_document: the attached headings fill an empty stack.
DoclingStack(acc, item) ==
    IF TypeOf(item.label) = "heading" THEN Push(acc.stack, item)
    ELSE IF acc.stack = <<>> THEN item.hints ELSE acc.stack
DoclingRead(acc, items, k) ==
    LET item == items[k]
        stack == DoclingStack(acc, item)
    IN  IF Silent(item) THEN acc
        ELSE Emit(acc, stack, BlockOf(item, k, item.page, TypeOf(item.label), stack))
DoclingBlocks(items) == Scanned(DoclingRead, items)

\* blocks_from_structured_chunks: each chunk brings its own headings.
StructuredRead(acc, items, k) ==
    LET item == items[k]
    IN  IF item.line = "blank" THEN acc
        ELSE Emit(acc, <<>>, NoBox(BlockOf(item, k, item.page, TypeOf(item.label), item.hints)))
StructuredBlocks(items) == Scanned(StructuredRead, items)

\* document_from_mineru_content_list.  A figure with neither words nor caption has the text
\* None, and .strip() raises before the placeholder is put in.
Captionless(items) ==
    \E k \in DOMAIN items : TypeOf(items[k].label) = "figure" /\ items[k].line = "blank"
MinerURead(acc, items, k) ==
    LET item == items[k]
        type == TypeOf(item.label)
        stack == IF type = "heading" THEN Push(acc.stack, item) ELSE acc.stack
    IN  IF item.line = "blank" THEN acc
        ELSE Emit(acc, stack, BlockOf(item, k, item.page, type, stack))
MinerUBlocks(items) == Scanned(MinerURead, items)

\* _markdown_to_chunks: without a content list the text is cut at its titles, and paragraphs are
\* put together up to the limit.  The marks of a title stay in its text, not in its path; a title
\* with text on the next line is none for the regular expression.
Marked(b) == [b EXCEPT !.line = "phrase", !.title = <<"#">> \o @]
Buffered(acc, b) ==
    /\ acc.blocks # <<>> /\ Last(acc.blocks).type = "paragraph"
    /\ Last(acc.blocks).size + b.size <= TextTokens
Grow(acc, b) ==
    LET n == Len(acc.blocks)
        last == acc.blocks[n]
    IN  [acc EXCEPT !.blocks[n] =
            [last EXCEPT !.text = last.text \o b.text, !.size = last.size + b.size,
                         !.line = IF @ \in WholeText THEN "phrase" ELSE @]]
MarkedTitle(item) == TypeOf(item.label) = "heading"
MarkdownRead(acc, items, k) ==
    LET item == items[k]
        title == Push(acc.stack, item)
        heading == NoBox(Marked(BlockOf(item, k, 1, "heading", title)))
        plain == NoBox(BlockOf(item, k, 1, "paragraph", acc.stack))
        paragraph == IF MarkedTitle(item) THEN Marked(plain) ELSE plain
    IN  IF item.line = "blank" THEN acc
        ELSE IF MarkedTitle(item) /\ item.more = "none" THEN Emit(acc, title, heading)
        ELSE IF Buffered(acc, paragraph) THEN Grow(acc, paragraph)
        ELSE Emit(acc, acc.stack, paragraph)
MarkdownBlocks(items) == Scanned(MarkdownRead, items)

\* extract_metadata_from_page_text: the first chapter and the first article of the page, cut short.
Short(title) == Append(title, "cut")
FirstOn(items, page, lines) ==
    LET found == At(items, {n \in DOMAIN items : items[n].page = page /\ items[n].line \in lines})
    IN  IF found = <<>> THEN <<>> ELSE <<Short(Head(found).title)>>
PagePath(items, page) ==
    FirstOn(items, page, {"chapter"}) \o FirstOn(items, page, {"article", "provision"})

\* clean_page_texts: the words that stand in the first lines of enough pages of a PDF, or in
\* the last lines of enough, are taken out of the first and last lines of every page.
TextOn(items, p) ==
    InOrder({k \in DOMAIN items : items[k].page = p /\ TypeOf(items[k].label) # "figure"})
TopOf(ks) == ToSet(SubSeq(ks, 1, Min({EdgeItems, Len(ks)})))
BottomOf(ks) == ToSet(SubSeq(ks, Max({1, Len(ks) - EdgeItems + 1}), Len(ks)))
\* A paragraph of several lines is taken out as a whole, where all of it stands.
SameText(i, j) ==
    \/ i = j
    \/ /\ i.title # <<>> /\ i.title = j.title /\ i.line = j.line
       /\ i.more = "none" /\ j.more = "none"
PageCount(items) == Max(PagesOf(items))
\* int(total * frequency_threshold)
EnoughPages(items) == PageCount(items) \div 2
Furniture(items) ==
    LET pages == 1..PageCount(items)
        lines == [p \in pages |-> TextOn(items, p)]
        top == [p \in pages |-> TopOf(lines[p])]
        bottom == [p \in pages |-> BottomOf(lines[p])]
        on(k, edge) == {p \in pages : \E j \in edge[p] : SameText(items[j], items[k])}
    IN  {k \in UNION {top[p] \cup bottom[p] : p \in pages} :
            /\ PageCount(items) >= 3
            /\ \/ Cardinality(on(k, top)) >= EnoughPages(items)
               \/ Cardinality(on(k, bottom)) >= EnoughPages(items)}
Undecorated(items) ==
    LET gone == Furniture(items)
    IN  [k \in DOMAIN items |->
            IF k \in gone THEN [items[k] EXCEPT !.line = "blank", !.more = "none"] ELSE items[k]]
\* _merge_wrapped_lines: the lines of a paragraph become one.
Unwrapped(item) == [item EXCEPT !.more = IF @ = "more" THEN "none" ELSE @]

\* PyPdfFallbackParser.parse: only text; each page starts with the path of its own metadata.
PyPdfStack(acc, items, k) ==
    IF items[k].line \in {"chapter", "article", "numbered"} THEN <<items[k].title>>
    ELSE IF items[k].page # acc.page THEN PagePath(items, items[k].page) ELSE acc.stack
PyPdfType(item) ==
    IF item.line \in {"chapter", "article", "numbered"} THEN "heading" ELSE "paragraph"
PyPdfRead(acc, items, k) ==
    LET item == items[k]
        stack == PyPdfStack(acc, items, k)
        new == Emit(acc, stack, NoBox(BlockOf(Unwrapped(item), k, item.page, PyPdfType(item), stack)))
    IN  IF item.line \in {"blank", "number"} \/ TypeOf(item.label) = "figure" THEN acc
        ELSE [new EXCEPT !.page = item.page]
PyPdfBlocks(items) == Scanned(PyPdfRead, Undecorated(items))

\* TextFileParser.parse: a heading starts a path of its own; there is one page.  A paragraph has
\* several lines only where there are others.  A first line that is a heading without the marks of
\* Markdown makes the whole paragraph one; behind such marks there must be no other line.
TextHeading(item) ==
    IF MarkedTitle(item) THEN item.more = "none" ELSE item.line \in {"chapter", "keyword", "toc"}
TextType(item) ==
    IF TextHeading(item) THEN "heading"
    ELSE IF ~MarkedTitle(item) /\ (item.line = "item" \/ TypeOf(item.label) = "list_item") THEN "list_item"
    ELSE "paragraph"
TextRead(acc, items, k) ==
    LET item == items[k]
        stack == IF TextHeading(item) THEN <<item.title>> ELSE acc.stack
        plain == NoBox(BlockOf(item, k, 1, TextType(item), stack))
    IN  IF item.line = "blank" THEN acc
        ELSE Emit(acc, stack, IF MarkedTitle(item) /\ ~TextHeading(item) THEN Marked(plain) ELSE plain)
TextBlocks(items) == Scanned(TextRead, items)

\* TableFileParser.parse: one block for each row that has a value, under its sheet.
RowRead(acc, items, k) ==
    LET item == items[k]
        row == NoBox(BlockOf(item, k, 1, "table", <<item.title>>))
    IN  IF item.line = "blank" THEN acc
        ELSE Emit(acc, <<>>, [row EXCEPT !.line = "phrase", !.title = <<>>, !.sheet = item.title])
RowBlocks(items) == Scanned(RowRead, items)
===============================================================================
