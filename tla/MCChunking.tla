------------------------------- MODULE MCChunking -------------------------------
EXTENDS ChunkingProperties

ItemOf(label, line, title, level, size, band, wide) ==
    [label |-> label, line |-> line, title |-> title, level |-> level, page |-> 1,
     size |-> size, more |-> IF size > 2 /\ line \notin WholeText THEN "more" ELSE "none",
     band |-> band, wide |-> wide, hints |-> <<>>]
WithLines(item, more, size) == [item EXCEPT !.more = more, !.size = size]
Heading(line, title, level) == ItemOf("title", line, title, level, 1, 0, FALSE)
Text(line, title, size) == ItemOf("text", line, title, 0, size, 0, FALSE)
Boxed(line, title, size, band, wide) == ItemOf("text", line, title, 0, size, band, wide)

Chapter == Heading("chapter", <<"Scope">>, 1)
Section == Heading("numbered", <<"Cover">>, 2)
Sentence == Text("sentence", <<>>, 3)
Table == ItemOf("table", "phrase", <<>>, 0, 2, 0, FALSE)
Figure == ItemOf("picture", "blank", <<>>, 0, 1, 0, FALSE)
Caption == ItemOf("caption", "phrase", <<>>, 0, 1, 0, FALSE)
Clause2 == ItemOf("list", "clause", <<>>, 0, 2, 0, FALSE)
Article == Boxed("article", <<"Payment">>, 1, 2, FALSE)
Question == Text("question", <<>>, 2)
Wide == Boxed("sentence", <<>>, 3, 2, TRUE)

\* What tells a template's branches apart
Shapes(t) ==
    CASE t = "contract_terms" ->
             {Chapter, Article, Wide, Clause2, Table, Boxed("provision", <<"Sum">>, 2, 2, FALSE),
              Text("junk", <<"No">>, 1), Heading("phrase", <<"Scope">>, 1)}
      [] t = "laws" ->
             {Chapter, Article, Sentence, Clause2, Caption, Text("provision", <<"Sum">>, 2)}
      [] t = "manual" ->
             {Chapter, Heading("phrase", <<"Manual">>, 1), Sentence, Figure, Text("item", <<>>, 2),
              ItemOf("table", "trouble", <<>>, 0, 1, 0, FALSE), Text("callout", <<>>, 1)}
      [] t = "qa" ->
             {Heading("phrase", <<"QA">>, 1), Heading("question", <<>>, 1), Question,
              Text("answer", <<>>, 3), Table, Sentence}
      [] t = "paper" ->
             {Heading("keyword", <<"Abstract">>, 1), Text("keyword", <<"References">>, 1), Section,
              Sentence, Caption, Figure}
      [] t = "book" ->
             {Chapter, Section, Heading("phrase", <<"Appendix">>, 1), Text("toc", <<"Contents">>, 1),
              Sentence, Table}
      [] t = "table_data" -> {Table, Chapter, Sentence}
      [] t = "picture_pdf" -> {Figure, Caption, Sentence, Section}
      [] t = "generic_structured" ->
             {Chapter, Section, Sentence, Table, Caption, Figure, ItemOf("list", "item", <<>>, 0, 2, 0, FALSE)}

\* The last item is on the first page, or on a page of its own.
OnPages(items) ==
    {[items EXCEPT ![Len(items)].page = p] : p \in {1, 2}}
Documents(t) ==
    UNION {OnPages(items) : items \in UNION {[1..n -> Shapes(t)] : n \in 1..3}}

AllRead == [docling |-> "reads", mineru |-> "reads", pypdf |-> "reads",
            table_file |-> "reads", text_file |-> "reads"]
Job(items, suffix, parser, template, world) ==
    [items |-> items, suffix |-> suffix, parser |-> parser, template |-> template,
     world |-> world]
ReadBy(parser, suffix, template, items) == Job(items, suffix, parser, template, AllRead)

\* Each template, on documents that docling reads
TemplateJobs ==
    UNION {{ReadBy("docling", "pdf", t, items) : items \in Documents(t)} : t \in Template}

\* Longer documents: chapterless contracts, a text between two markers, words that return
\* at the edge of pages, a table between two sections.
Edge(title, p) == [Boxed("phrase", title, 1, 1, FALSE) EXCEPT !.page = p]
OnPage(item, p) == [item EXCEPT !.page = p]
Article2 == Boxed("article", <<"Notice">>, 2, 2, FALSE)
Longer ==
    {<<Sentence, Article, Sentence, Article, Clause2, Article2, Sentence>>,
     <<Article, Wide, Article2, Sentence>>,
     <<Wide, Article, Article2>>,
     <<Edge(<<"Ltd">>, 1), Sentence, OnPage(Sentence, 2), Edge(<<"Ltd">>, 2)>>,
     <<Boxed("phrase", <<"Ltd">>, 1, 2, FALSE), Sentence,
       OnPage(Boxed("phrase", <<"Ltd">>, 1, 2, FALSE), 2), OnPage(Sentence, 2)>>,
     <<Chapter, Sentence, Section, Table, Caption, Sentence, OnPage(Chapter, 2)>>,
     <<Chapter, Figure, Sentence, Chapter, Sentence, OnPage(Section, 2)>>,
     <<Text("running", <<"Terms">>, 1), OnPage(Text("running", <<"Terms">>, 1), 2), OnPage(Sentence, 2)>>,
     <<Heading("keyword", <<"Abstract">>, 1), Sentence, Sentence, Figure, Sentence>>,
     <<Text("number", <<>>, 1), Text("leader", <<>>, 1), Text("blank", <<>>, 1)>>}
\* Contracts with headings of one line and of several, short and long, one after the other, above
\* a text, a table, another article, a text that does not fit, or nothing; and texts that end like
\* page junk.
Term == Heading("numbered", <<"Term">>, 2)
Headed ==
    {Chapter, WithLines(Chapter, "more", 2), WithLines(Term, "none", 2), WithLines(Term, "more", 3),
     WithLines(Term, "mark", 2), WithLines(Article2, "more", 4), Sentence, Table}
Marks ==
    {WithLines(Sentence, "mark", 3), WithLines(Sentence, "mark", 4), Text("junk", <<"No">>, 3),
     Text("junk", <<"No">>, 4), WithLines(Wide, "mark", 3), WithLines(Table, "mark", 2), Article}
Contracts ==
    UNION {[1..n -> Headed] : n \in 1..3} \cup {<<Chapter>> \o items : items \in [1..2 -> Marks]}
        \cup {<<Chapter, WithLines(Term, "none", 2), Term, Wide>>,
              <<Sentence, Chapter, WithLines(Term, "none", 2), Term, Wide>>}
ContractJobs == {ReadBy("docling", "pdf", "contract_terms", items) : items \in Contracts}
\* The readers that tell headings by their lines, on titles of several lines
Plain ==
    {Chapter, WithLines(Chapter, "more", 2), WithLines(Heading("phrase", <<"Scope">>, 1), "mark", 2),
     Text("junk", <<"No">>, 1), Text("sentence", <<>>, 2), Text("article", <<"Payment">>, 1)}
PlainJobs ==
    {Job(items, "md", parser, "contract_terms", [AllRead EXCEPT !.mineru = "markdown"]) :
        items \in [1..2 -> Plain], parser \in {"text_file", "mineru", "pypdf"}}
LongerJobs ==
    {ReadBy("docling", "pdf", t, items) : t \in Template \cup {"auto", "novel"}, items \in Longer}

\* What the parsers do, on a few documents
Worlds ==
    [docling : {"absent", "fails", "reads", "chunks"}, mineru : {"absent", "reads", "markdown"},
     pypdf : {"fails", "reads"}, table_file : {"fails", "reads"}, text_file : {"reads"}]
Hinted(item) == [item EXCEPT !.hints = <<<<"Scope">>, <<"Cover">>>>]
Few ==
    {<<Chapter, Sentence, Hinted(Table), Section, Sentence>>,
     <<Figure>>,
     <<Text("blank", <<>>, 1), Figure>>,
     <<Hinted(Sentence), Article, OnPage(Sentence, 2), OnPage(Text("number", <<>>, 1), 3)>>}
ParserJobs ==
    {Job(items, suffix, parser, "auto", world) :
        items \in Few, suffix \in {"pdf", "md", "csv"}, world \in Worlds,
        parser \in {"auto", "mineru", "pypdf", "table_file", "text_file", "other"}}

\* Chunks that bring their headings: the first one has that of the group a template starts with.
Under(title, item) == [item EXCEPT !.hints = <<title>>]
HintedJobs ==
    {Job(<<Under(DefaultTitle(t), Sentence), Under(<<"Scope">>, Sentence), Under(<<"Cover">>, Table)>>,
         "pdf", "docling", t, [AllRead EXCEPT !.docling = "chunks"]) : t \in Template}

MCJobs == TemplateJobs \cup LongerJobs \cup ContractJobs \cup PlainJobs \cup ParserJobs \cup HintedJobs

\* A PDF of three pages without a word that repeats
ThreePages ==
    {ReadBy("pypdf", "pdf", "auto",
        <<Chapter, Sentence, OnPage(Section, 2), OnPage(Text("phrase", <<"Sum">>, 2), 2), OnPage(Sentence, 3)>>)}
===============================================================================
