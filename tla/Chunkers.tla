-------------------------------- MODULE Chunkers --------------------------------
(***************************************************************************)
(* The template chunkers: how the blocks of a document are grouped into     *)
(* parents, and the blocks of a parent into children.                       *)
(*                                                                          *)
(* Every chunker walks over the blocks once with a group that is open, and  *)
(* then over the blocks of each group with a child that is open; a step of  *)
(* such a walk is an operator here.                                         *)
(***************************************************************************)
EXTENDS Sections, MediaContext

CONSTANTS
    MaxTokens,    \* child_max_tokens
    JunkTokens,   \* the 120 characters up to which a text can be page junk, in tokens
    Granularity   \* parent_granularity: 1 for chapters, 2 for sections

ASSUME ChunkerSizes == MaxTokens \in Nat \ {0} /\ JunkTokens \in Nat /\ Granularity \in {1, 2}

(***************************************************************************)
(* Lines, as the templates read them                                        *)
(***************************************************************************)
Media(b) == b.type \in MediaTypes
IsHeading(b) == b.type = "heading"
Clause(b) == b.type = "list_item" \/ b.line \in {"clause", "item"}
ArticleLine(b) == b.line \in {"article", "provision"}

\* contract_terms
ContractChapter(b) ==
    b.line \in TitleLine /\ (b.line = "chapter" \/ (IsHeading(b) /\ ~ArticleLine(b)))
ContractArticle(b) == ArticleLine(b) \/ (IsHeading(b) /\ b.line = "numbered")
\* The expressions look for the end of the text: its last line decides.
PageJunk(b) == b.line = "number" \/ (Last(b.text).part = "mark" /\ b.size <= JunkTokens)
\* A heading with nothing below its line
BareHeading(b) ==
    IsHeading(b) /\ (ContractChapter(b) \/ ContractArticle(b)) /\ Len(b.text) = 2
\* Mutation: the lines below the first one of a heading do not count.
SubstantiveByType(bs) ==
    \E b \in ToSet(bs) : ~IsHeading(b) \/ ~(ContractChapter(b) \/ ContractArticle(b))
\* _has_substantive_body
Substantive(bs) == \E b \in ToSet(bs) : ~BareHeading(b)

(***************************************************************************)
(* Groups.  "groups" is the OrderedDict: names in order, each with the      *)
(* number of a group object.  "open" is the object that takes the blocks;   *)
(* renaming it does not move it in the dictionary.                          *)
(***************************************************************************)
\* A group is named by its title; those of articles and pages have a number as well.
Key == Title \X Nat
Named(title) == <<title, 0>>
Groups == [objects : Seq([key : Key, title : Title, blocks : Seq(Block)]),
           names : Seq([key : Key, object : Nat]), open : Nat]
Group(key, title) == [key |-> key, title |-> title, blocks |-> <<>>]
NoGroups == [objects |-> <<>>, names |-> <<>>, open |-> 0]

OpenGroup(acc, key, title) ==
    [acc EXCEPT !.objects = Append(@, Group(key, title)), !.open = Len(acc.objects) + 1]
Opened(acc) == acc.objects[acc.open]

\* Mutation: the open group takes the block, whatever the dictionary holds for its key.
FileInOpen(acc, b) ==
    [acc EXCEPT !.objects[acc.open].blocks = Append(@, b),
                !.names = IF \E n \in ToSet(@) : n.object = acc.open THEN @
                          ELSE Append(@, [key |-> Opened(acc).key, object |-> acc.open])]
\* groups.setdefault(current.key, current).blocks.append(block)
File(acc, b) ==
    LET known == SelectInSeq(acc.names, LAMBDA n : n.key = Opened(acc).key)
        object == IF known = 0 THEN acc.open ELSE acc.names[known].object
    IN  [acc EXCEPT !.objects[object].blocks = Append(@, b),
                    !.names = IF known # 0 THEN @
                              ELSE Append(@, [key |-> Opened(acc).key, object |-> acc.open])]
Values(acc) == [k \in DOMAIN acc.names |-> acc.objects[acc.names[k].object]]

\* The group a chunker starts with
DefaultTitle(template) ==
    CASE template = "manual" -> <<"Manual">>
      [] template = "qa" -> <<"QA">>
      [] template \in {"paper", "book"} -> <<"Front Matter">>
      [] OTHER -> <<"Document">>
Default(template) == OpenGroup(NoGroups, Named(DefaultTitle(template)), DefaultTitle(template))
InDefault(acc, template) == Opened(acc).key = Named(DefaultTitle(template))
\* The default group takes the name of the first heading path it meets.
Renamed(acc, b) ==
    [acc EXCEPT !.objects[acc.open].key = Named(Head(b.path)),
                !.objects[acc.open].title = Head(b.path)]
Titled(acc, b) == [acc EXCEPT !.objects[acc.open].title = Head(b.path)]
UnderOwnTitle(acc, b) == OpenGroup(acc, Named(b.title), b.title)

ManualGroup(acc, b) ==
    IF IsHeading(b) THEN File(UnderOwnTitle(acc, b), b)
    ELSE IF InDefault(acc, "manual") THEN File(Renamed(acc, b), b)
    ELSE File(acc, b)
QAGroup(acc, b) ==
    IF IsHeading(b) /\ b.line # "question" THEN File(UnderOwnTitle(acc, b), b)
    ELSE IF InDefault(acc, "qa") THEN File(Renamed(acc, b), b)
    ELSE File(acc, b)
BookGroup(acc, b) ==
    IF b.line = "chapter" \/ (IsHeading(b) /\ b.title = <<"Appendix">>)
    THEN File(UnderOwnTitle(acc, b), b)
    ELSE IF InDefault(acc, "book") THEN File(Renamed(acc, b), b)
    ELSE File(acc, b)
\* The group keeps its key: only its title changes.
PaperGroup(acc, b) ==
    IF IsHeading(b) \/ b.line = "keyword" THEN File(UnderOwnTitle(acc, b), b)
    ELSE IF InDefault(acc, "paper") THEN File(Titled(acc, b), b)
    ELSE File(acc, b)
\* A new group instead of a renamed one
LawsGroup(acc, b) ==
    IF b.line = "chapter" THEN File(UnderOwnTitle(acc, b), b)
    ELSE IF InDefault(acc, "laws") THEN File(OpenGroup(acc, Named(Head(b.path)), Head(b.path)), b)
    ELSE File(acc, b)
\* (A block of type "title", which no adapter emits, would open one as well.)
ContractGroup(acc, b) ==
    IF ContractChapter(b) THEN File(UnderOwnTitle(acc, b), b) ELSE File(acc, b)
\* Every article is a parent; what comes before the first one is a preamble.
ArticleGroup(acc, b) ==
    IF ContractArticle(b)
    THEN File(OpenGroup(acc, <<b.title, Len(acc.objects)>>, b.title), b)
    ELSE File(acc, b)
SheetGroup(acc, b) ==
    LET sheet == IF b.sheet = <<>> THEN <<"Table">> ELSE b.sheet
    IN  File(OpenGroup(acc, Named(sheet), sheet), b)
PageGroup(acc, b) == File(OpenGroup(acc, <<<<"Page">>, b.page>>, <<"Page">>), b)
\* The section of the block at the granularity of parents, or the deepest one above it
SectionGroup(acc, b) ==
    LET path == SubSeq(b.path, 1, Min({Granularity, Len(b.path)}))
    IN  File(OpenGroup(acc, Named(FlattenSeq(path)), Last(path)), b)

\* A contract of at most one chapter and at least three articles is grouped by article.
ContractGroups(bs) ==
    LET chapters == Walk(Groups, ContractGroup, Default("contract_terms"), bs)
    IN  IF /\ Len(chapters.names) <= 1
           /\ Cardinality({n \in DOMAIN bs : ContractArticle(bs[n])}) >= 3
        THEN Walk(Groups, ArticleGroup, Default("contract_terms"), bs) ELSE chapters

GroupsOf(template, bs) ==
    Values(CASE template = "manual" -> Walk(Groups, ManualGroup, Default("manual"), bs)
             [] template = "qa" -> Walk(Groups, QAGroup, Default("qa"), bs)
             [] template = "book" -> Walk(Groups, BookGroup, Default("book"), bs)
             [] template = "paper" -> Walk(Groups, PaperGroup, Default("paper"), bs)
             [] template = "laws" -> Walk(Groups, LawsGroup, Default("laws"), bs)
             [] template = "contract_terms" -> ContractGroups(bs)
             [] template = "table_data" -> Walk(Groups, SheetGroup, NoGroups, bs)
             [] template = "picture_pdf" -> Walk(Groups, PageGroup, NoGroups, bs)
             [] OTHER -> Walk(Groups, SectionGroup, NoGroups, bs))

(***************************************************************************)
(* Article markers that the parser split from their text                    *)
(***************************************************************************)
\* "Article 3" and the rest of its line, alone in a box of its own
Marker(b) == ArticleLine(b) /\ b.band # 0
\* A block next to the marker that may be its text: a wider box, or an unfinished one before it.
BodyOfMarker(c, m) ==
    /\ c.id # m.id /\ c.page = m.page /\ c.band = m.band
    /\ ~Media(c) /\ ~IsHeading(c) /\ ~ArticleLine(c) /\ c.line # "blank"
    /\ \/ c.wide /\ ~m.wide
       \/ c.order < m.order /\ c.line \in TitleLine
Distance(c, m) == IF c.order < m.order THEN m.order - c.order ELSE c.order - m.order
Score(c, m) == (IF c.path # m.path THEN 20 ELSE 0) - Distance(c, m)
\* The first of the best
BestBody(bs, m) ==
    SelectInSeq(bs, LAMBDA c : BodyOfMarker(c, m)
        /\ \A d \in ToSet(bs) : BodyOfMarker(d, m) => Score(c, m) >= Score(d, m))

\* _combine_article_text: label, text, rest of the first line of the marker
JoinMarker(body, m) ==
    [body EXCEPT !.text = <<m.text[1]>> \o @ \o <<m.text[2]>>,
                 !.line = m.line, !.title = m.title, !.size = @ + m.size,
                 !.type = IF @ = "list_item" THEN "paragraph" ELSE @]

\* The text that is put together is the original one of the body, for each of its markers.
RepairMarkers(bs) ==
    LET joins == {k \in DOMAIN bs : Marker(bs[k]) /\ BestBody(bs, bs[k]) # 0}
        markers(n) == {k \in joins : BestBody(bs, bs[k]) = n}
        repaired == [n \in DOMAIN bs |->
                        IF markers(n) = {} THEN bs[n] ELSE JoinMarker(bs[n], bs[Max(markers(n))])]
    IN  At(repaired, DOMAIN bs \ joins)

(***************************************************************************)
(* Children.  "open" is the child that takes the blocks, "steps" the        *)
(* procedure of a manual, "article" the article of a contract or a law.     *)
(***************************************************************************)
ChunkType ==
    BlockType \cup {"text", "list", "manual_text", "manual_procedure", "manual_callout",
                   "manual_troubleshooting_table", "qa_pair", "book_section", "paper_text",
                   "paper_abstract", "paper_references", "legal_article", "contract_clause",
                   "table_row_group", "ocr_text", "image_context"}
Draft == [blocks : Seq(Block), type : ChunkType, article : Title]
Children == [done : Seq(Draft), open : Seq(Block), steps : Seq(Block), article : Title]
NoChildren == [done |-> <<>>, open |-> <<>>, steps |-> <<>>, article |-> <<>>]

Drafted(bs, type, article) == [blocks |-> bs, type |-> type, article |-> article]
\* infer_chunk_type
TypeOfBlocks(bs) ==
    IF Len(bs) = 1 /\ Media(bs[1]) THEN bs[1].type
    ELSE IF \A b \in ToSet(bs) : b.type = "list_item" THEN "list" ELSE "text"

Flush(acc, type) ==
    IF acc.open = <<>> THEN acc
    ELSE [acc EXCEPT !.done = Append(@, Drafted(acc.open, type, acc.article)), !.open = <<>>]
FlushSteps(acc) ==
    IF acc.steps = <<>> THEN acc
    ELSE [acc EXCEPT !.done = Append(@, Drafted(acc.steps, "manual_procedure", <<>>)),
                     !.steps = <<>>]
\* A child of one block only
Alone(acc, b, type) == [acc EXCEPT !.done = Append(@, Drafted(<<b>>, type, acc.article))]
Take(acc, b) == [acc EXCEPT !.open = Append(@, b)]
\* Mutation: a child is closed when it is too long already.
OverflowsLate(acc, b) == acc.open # <<>> /\ Tokens(acc.open) > MaxTokens
Overflows(acc, b) == acc.open # <<>> /\ Tokens(acc.open) + b.size > MaxTokens
\* The block goes to the open child, or to a new one when that is full.
Fill(acc, b, type) == Take(IF Overflows(acc, b) THEN Flush(acc, type) ELSE acc, b)

GenericStep(acc, b) ==
    IF Media(b) THEN Alone(Flush(acc, TypeOfBlocks(acc.open)), b, b.type)
    ELSE IF Overflows(acc, b) THEN Take(Flush(acc, TypeOfBlocks(acc.open)), b)
    ELSE Take(acc, b)

Troubleshooting(b) == b.type = "table" /\ b.line = "trouble"
Procedure(b) == b.type = "list_item" \/ b.line = "item"
ManualStep(acc, b) ==
    LET closed == FlushSteps(Flush(acc, "manual_text"))
    IN  IF Media(b)
        THEN Alone(closed, b, IF Troubleshooting(b) THEN "manual_troubleshooting_table" ELSE b.type)
        ELSE IF b.line = "callout" THEN Alone(closed, b, "manual_callout")
        ELSE IF Procedure(b)
        THEN [Flush(acc, "manual_text") EXCEPT !.steps = Append(@, b)]
        ELSE Fill(FlushSteps(acc), b, "manual_text")

\* A law forgets its article whenever a child is closed.
CloseArticle(acc) == [Flush(acc, "legal_article") EXCEPT !.article = <<>>]
LawsStep(acc, b) ==
    LET before == IF ArticleLine(b) /\ acc.open # <<>> THEN CloseArticle(acc) ELSE acc
        named == IF ArticleLine(b) THEN [before EXCEPT !.article = b.title] ELSE before
    IN  IF Media(b) THEN Alone(CloseArticle(acc), b, b.type)
        ELSE IF Overflows(named, b) /\ ~Clause(b) THEN Take(CloseArticle(named), b)
        ELSE Take(named, b)

\* Abstract and references are one child, however long.
Collected(title) == title \in {<<"Abstract">>, <<"References">>}
PaperType(title) ==
    CASE title = <<"Abstract">> -> "paper_abstract"
      [] title = <<"References">> -> "paper_references"
      [] OTHER -> "paper_text"
PaperStep(acc, b, title) ==
    IF Media(b) THEN Alone(Flush(acc, "paper_text"), b, b.type)
    ELSE IF Collected(title) THEN Take(acc, b)
    ELSE Fill(acc, b, "paper_text")

BookStep(acc, b) ==
    IF Media(b) THEN Alone(Flush(acc, "book_section"), b, b.type)
    ELSE Fill(IF IsHeading(b) THEN Flush(acc, "book_section") ELSE acc, b, "book_section")

\* The headings of a category are in no child, and a table goes with the answer.
QAStep(acc, b) ==
    IF IsHeading(b) /\ b.line # "question" THEN acc
    ELSE IF b.line = "question" THEN Take(Flush(acc, "qa_pair"), b)
    ELSE Take(acc, b)

RowStep(acc, b) == Fill(acc, b, "table_row_group")

PageStep(acc, b) ==
    IF Media(b) THEN Alone(Flush(acc, "ocr_text"), b, "image_context")
    ELSE Fill(acc, b, "ocr_text")

\* A child of nothing but headings is not worth one.
FlushClause(acc) ==
    IF acc.open = <<>> \/ Substantive(acc.open) THEN Flush(acc, "contract_clause")
    ELSE [acc EXCEPT !.open = <<>>]
\* The step with the operator that closes a child
Clauses(Close(_), acc, b) ==
    LET starts == ContractArticle(b)
        before == IF starts THEN Close(acc) ELSE acc
        named == IF starts THEN [before EXCEPT !.article = b.title] ELSE before
    IN  IF PageJunk(b) THEN acc
        ELSE IF Media(b) THEN Alone(Close(acc), b, b.type)
        ELSE IF ContractChapter(b) /\ acc.open = <<>> THEN Take(acc, b)
        ELSE IF Overflows(named, b) /\ ~Clause(b) THEN Take(Close(named), b)
        ELSE Take(named, b)
ContractStep(acc, b) == Clauses(FlushClause, acc, b)

ChildrenOf(template, g) ==
    (CASE template = "manual" ->
             FlushSteps(Flush(Walk(Children, ManualStep, NoChildren, g.blocks), "manual_text"))
       [] template = "qa" -> Flush(Walk(Children, QAStep, NoChildren, g.blocks), "qa_pair")
       [] template = "book" -> Flush(Walk(Children, BookStep, NoChildren, g.blocks), "book_section")
       [] template = "paper" ->
             Flush(Walk(Children, LAMBDA acc, b : PaperStep(acc, b, g.title), NoChildren, g.blocks),
                   PaperType(g.title))
       [] template = "laws" -> CloseArticle(Walk(Children, LawsStep, NoChildren, g.blocks))
       [] template = "contract_terms" ->
             FlushClause(Walk(Children, ContractStep, NoChildren, g.blocks))
       [] template = "table_data" ->
             Flush(Walk(Children, RowStep, NoChildren, g.blocks), "table_row_group")
       [] template = "picture_pdf" -> Flush(Walk(Children, PageStep, NoChildren, g.blocks), "ocr_text")
       [] OTHER -> LET acc == Walk(Children, GenericStep, NoChildren, g.blocks)
                   IN  Flush(acc, TypeOfBlocks(acc.open))).done

(***************************************************************************)
(* A package: parents with the ids of their children, and the children      *)
(***************************************************************************)
\* child_id: of the parent, the position and the blocks
ChildId(key, k, draft) == [parent |-> key, at |-> k, blocks |-> IdsOf(draft.blocks)]
Child(key, k, draft) ==
    [id |-> ChildId(key, k, draft), parent |-> key, type |-> draft.type,
     article |-> draft.article, blocks |-> draft.blocks,
     first |-> Min(PagesOf(draft.blocks)), last |-> Max(PagesOf(draft.blocks)),
     context |-> <<>>]
KidsOf(g, drafts) == [k \in DOMAIN drafts |-> Child(g.key, k, drafts[k])]
\* The parent chunk of a group, and its children
Family(g, kids) ==
    [parent |-> [id |-> g.key, title |-> g.title, blocks |-> IdSet(g.blocks),
                 kids |-> IdsOf(kids),
                 first |-> Min(PagesOf(g.blocks)), last |-> Max(PagesOf(g.blocks))],
     kids |-> kids]
Families(template, groups) ==
    [k \in DOMAIN groups |-> Family(groups[k], KidsOf(groups[k], ChildrenOf(template, groups[k])))]

\* What the template looks at: a book without contents and index, a contract with its articles.
Chosen(template, bs) ==
    CASE template = "book" ->
             LET content == ContentBlocks(bs)
             IN  At(content, {n \in DOMAIN content : content[n].line # "toc"})
      [] template = "contract_terms" -> RepairMarkers(ContentBlocks(bs))
      [] OTHER -> ContentBlocks(bs)

\* attach_media_context
InContext(kids, bs) ==
    [k \in DOMAIN kids |-> [kids[k] EXCEPT !.context = Context(kids[k], bs)]]
\* The chunks of the template
Packed(families, bs) ==
    [parents |-> [k \in DOMAIN families |-> families[k].parent],
     children |-> InContext(FlattenSeq([k \in DOMAIN families |-> families[k].kids]), bs)]
Package(template, bs) ==
    Packed(Families(template, GroupsOf(template, Chosen(template, bs))), bs)
===============================================================================
