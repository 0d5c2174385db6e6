-------------------------------- MODULE Sections --------------------------------
(***************************************************************************)
(* Between the parser and the chunker: blocks that are page furniture are   *)
(* taken out (clean_layout_noise), every block gets a place in a tree of    *)
(* sections (build_section_tree), and the kind of document is guessed       *)
(* (detect_document_type).                                                  *)
(***************************************************************************)
EXTENDS Blocks

(***************************************************************************)
(* Layout noise                                                             *)
(***************************************************************************)
AtEdge(b) == b.band = 1
RunningHeader(b) == b.line = "running" /\ b.page > 1 /\ b.band \in {0, 1}
\* Two blocks with the same words; a block without a title, or of several lines, has words of
\* its own.
SameWords(b, c) ==
    b.line = c.line /\ b.title = c.title /\ b.title # <<>> /\ Len(b.text) = 2 /\ Len(c.text) = 2

\* The words stand at the edge of two pages, or as a notice or running header.
Repeats(b, bs) ==
    Cardinality({c.page : c \in {d \in ToSet(bs) :
        SameWords(b, d) /\ (AtEdge(d) \/ d.line = "notice" \/ RunningHeader(d))}}) >= 2

Noise(b, bs) ==
    \/ b.type \in SkipTypes
    \/ b.line \in {"blank", "number", "leader"}
    \/ RunningHeader(b)
    \/ Repeats(b, bs)

Cleaned(bs) == At(bs, {n \in DOMAIN bs : ~Noise(bs[n], bs)})

(***************************************************************************)
(* Headings                                                                 *)
(***************************************************************************)
\* _heading_level without hints of the parser
Level(b) == IF b.line \in {"article", "numbered"} THEN 2 ELSE 1

\* _infer_heading: a paragraph that reads like the heading of an article, chapter or section.
Inferred(b) == b.type = "paragraph" /\ b.line \in {"article"} \cup Structured
\* _classify_heading
Classified(b) == b.type = "heading" /\ b.line \in TitleLine

\* _path_with_level
PathWith(path, title, level) ==
    LET above == SubSeq(path, 1, Min({level - 1, Len(path)}))
        known == SelectInSeq(above, LAMBDA t : t = title)
    IN  IF level <= 1 \/ path = <<>> THEN <<title>>
        ELSE IF known # 0 THEN SubSeq(above, 1, known)
        ELSE Append(above, title)

\* _clean_path: no empty titles, and none twice.
CleanPath(path) ==
    Walk(Seq(Title), LAMBDA out, t : IF t = <<>> \/ t \in ToSet(out) THEN out ELSE Append(out, t),
         <<>>, path)

(***************************************************************************)
(* The section tree: a function from the heading path of a section          *)
(***************************************************************************)
Root == <<<<"Document">>>>
Lineage(path) == {SubSeq(path, 1, n) : n \in 1..Len(path)}

\* Mutation: the pages of the sections above are those of their first block.
EnsureNew(tree, path, b) ==
    [q \in DOMAIN tree \cup Lineage(path) |->
        IF q \in DOMAIN tree
        THEN [tree[q] EXCEPT !.blocks = IF q = path THEN @ \cup {b.id} ELSE @]
        ELSE [first |-> b.page, last |-> b.page, blocks |-> IF q = path THEN {b.id} ELSE {}]]
\* ensure: a section for every prefix, whose pages grow to hold the block.
Ensure(tree, path, b) ==
    [q \in DOMAIN tree \cup Lineage(path) |->
        LET node == IF q \in DOMAIN tree THEN tree[q]
                    ELSE [first |-> b.page, last |-> b.page, blocks |-> {}]
        IN  IF q \notin Lineage(path) THEN node
            ELSE [first |-> Min({node.first, b.page}), last |-> Max({node.last, b.page}),
                  blocks |-> node.blocks \cup (IF q = path THEN {b.id} ELSE {})]]

\* The path that holds from block b on, when it was path before.
PathAt(path, b) ==
    IF b.path # <<>> THEN CleanPath(b.path)
    ELSE IF Classified(b) \/ Inferred(b) THEN PathWith(path, b.title, Level(b))
    ELSE path
\* The block in its section; an inferred heading is a heading from here on.
Placed(path, b) ==
    [b EXCEPT !.path = IF path = <<>> THEN Root ELSE path,
              !.type = IF b.path = <<>> /\ Inferred(b) THEN "heading" ELSE @]

\* The path of the last heading, and the blocks so far
Placing == [path : Seq(Title), blocks : Seq(Block)]
PlaceNext(acc, b) ==
    LET path == PathAt(acc.path, b)
    IN  [path |-> path, blocks |-> Append(acc.blocks, Placed(path, b))]
PlacedBlocks(bs) == Walk(Placing, PlaceNext, [path |-> <<>>, blocks |-> <<>>], bs).blocks
\* The section tree that placed blocks make, one after the other
TreeOf(placed) ==
    LET tree[n \in 0..Len(placed)] ==
            IF n = 0 THEN <<>> ELSE Ensure(tree[n - 1], placed[n].path, placed[n])
    IN  tree[Len(placed)]

(***************************************************************************)
(* validate_parsed_document: what it warns of (boxes are not modelled)       *)
(***************************************************************************)
PagelessBlocks(bs, pages) == {b \in ToSet(bs) : b.page \notin DOMAIN pages \/ b.id \notin pages[b.page]}
OutOfOrder(bs) ==
    {k \in DOMAIN bs : \E j \in 1..(k - 1) : bs[j].page = bs[k].page /\ bs[j].order > bs[k].order}
Unplaced(bs, tree) == {b \in ToSet(bs) : b.path \notin DOMAIN tree}
OddSections(tree) ==
    {q \in DOMAIN tree :
        \/ Last(q) = <<>>
        \/ tree[q].first > tree[q].last
        \/ Len(q) > 1 /\ Front(q) \notin DOMAIN tree}
DocumentWarnings(bs, pages, tree) ==
    {w \in {"no blocks", "no pages", "duplicate id", "page", "order", "heading", "section"} :
        CASE w = "no blocks" -> bs = <<>>
          [] w = "no pages" -> DOMAIN pages = {}
          [] w = "duplicate id" -> ~IsInjective(IdsOf(bs))
          [] w = "page" -> PagelessBlocks(bs, pages) # {}
          [] w = "order" -> OutOfOrder(bs) # {}
          [] w = "heading" -> Unplaced(bs, tree) # {}
          [] w = "section" -> OddSections(tree) # {}}

(***************************************************************************)
(* The kind of document                                                     *)
(***************************************************************************)
Template == {"contract_terms", "paper", "book", "laws", "manual", "qa",
             "table_data", "picture_pdf", "generic_structured"}

\* The keywords of a template, by the lines that hold them.
Keywords ==
    [contract_terms |-> {"junk", "running"}, paper |-> {"keyword"}, book |-> {"chapter", "toc"},
     laws |-> {"article", "provision"}, manual |-> {"callout", "trouble"},
     qa |-> {"question", "answer"}]
Rules == <<"contract_terms", "paper", "book", "laws", "manual", "qa">>

Share(bs, type) == Cardinality({n \in DOMAIN bs : bs[n].type = type})
MoreThanAThird(bs, type) == 20 * Share(bs, type) > 7 * Len(bs)

\* The first rule one of whose keywords occurs in the text
ByKeyword(bs) ==
    LET rule == SelectInSeq(Rules, LAMBDA t : \E b \in ToSet(bs) : b.line \in Keywords[t])
    IN  IF rule = 0 THEN "generic_structured" ELSE Rules[rule]

DocumentType(bs, requested, parser) ==
    CASE requested \in Template -> requested
      [] requested \notin Template \cup {"auto"} -> "generic_structured"
      [] requested = "auto" /\ parser = "table_file" -> "table_data"
      [] OTHER -> IF MoreThanAThird(bs, "table") THEN "table_data"
                  ELSE IF MoreThanAThird(bs, "figure") THEN "picture_pdf"
                  ELSE ByKeyword(bs)
===============================================================================
