--------------------------------- MODULE Blocks ---------------------------------
(***************************************************************************)
(* What the chunking code tells apart in the blocks of a parsed document.   *)
(*                                                                          *)
(* A block is one paragraph, heading, row or figure.  Its wording matters   *)
(* only through the regular expressions that are tried on its first line,   *)
(* so a line is a class: what those expressions can tell apart.             *)
(*   chapter     "Chapter 2 Scope"          article    "Article 3 Payment"  *)
(*   provision   "Article 3 The sum ... ."  numbered   "1.2 Scope"          *)
(*   clause      "(a) ... ;"                item       "1. ... ."           *)
(*   keyword     "Abstract", "References"   toc        "Contents"           *)
(*   question, answer  "Q: ...?", "A: ..."  callout    "Warning ..."        *)
(*   trouble     "Troubleshooting"                                          *)
(*   notice      "Confidential"             running    the name of a policy *)
(*   junk        a reference number         number     "Page 3"             *)
(*   leader      "Scope ........ 7"         blank      nothing              *)
(*   phrase      a few other words          sentence   a full sentence      *)
(* A title is a sequence of words, so that a shortened form of it is a      *)
(* different title; a block whose first line nobody names has title <<>>.   *)
(***************************************************************************)
EXTENDS Lists, Integers

Line == {"chapter", "article", "provision", "numbered", "clause", "item", "keyword", "toc",
         "question", "answer", "callout", "trouble", "notice", "running", "junk", "number",
         "leader", "blank", "phrase", "sentence"}
BlockType == {"paragraph", "heading", "list_item", "table", "figure", "caption", "formula",
              "header"}
MediaTypes == {"table", "figure", "caption"}
SkipTypes == {"header"}

\* A first line that can be a title: short, and not a sentence.
TitleLine == {"chapter", "article", "numbered", "keyword", "toc", "notice", "running",
              "junk", "phrase", "trouble"}
\* A text that is nothing else: these classes are of a whole text of one line.
WholeText == {"junk", "running", "number", "leader", "blank"}
\* A line that ends like a reference number or the name of an edition
EndsAsJunk == {"junk", "running"}
\* A line whose numbering says what it is.
Structured == {"chapter", "numbered"}

\* The words of titles; those of the code itself are named, for the prover knows no string as one.
Word == STRING \cup {"cut", "#", "Document", "Manual", "QA", "Front Matter", "Table", "Page"}
Title == Seq(Word)
\* The text of a block: the label and the rest of its first line, and the lines below.  A rest or
\* lines that end like page junk are a "mark".
Piece == [of : Nat, part : {"label", "rest", "more", "mark"}]
Block == [id : Nat, page : Nat, order : Nat, type : BlockType, line : Line, title : Title,
          path : Seq(Title), size : Nat, band : 0..2, wide : BOOLEAN, sheet : Title,
          text : Seq(Piece)]

\* The steps that a walk over a sequence makes from base on; V is what can be made.
Walk(V, Step(_, _), base, seq) ==
    Folded(base, [n \in DOMAIN seq |-> [acc \in V |-> Step(acc, seq[n])]])
\* The numbers of a set, in order
InOrder(S) == [n \in 1..Cardinality(S) |-> CHOOSE k \in S : Cardinality({j \in S : j < k}) = n - 1]

IdsOf(bs) == [k \in DOMAIN bs |-> bs[k].id]
IdSet(bs) == {bs[k].id : k \in DOMAIN bs}
Tokens(bs) == Walk(Nat, LAMBDA n, b : n + b.size, 0, bs)
PagesOf(bs) == {bs[k].page : k \in DOMAIN bs}

Precedes(b, c) == b.page < c.page \/ (b.page = c.page /\ b.order < c.order)
\* A block goes before those it precedes.
Insert(sorted, b) ==
    LET after == {n \in DOMAIN sorted : Precedes(b, sorted[n])}
    IN  Append(At(sorted, DOMAIN sorted \ after), b) \o At(sorted, after)
\* sorted(document.blocks, key = (page_number, reading_order))
InReadingOrder(bs) == Walk(Seq(Block), Insert, <<>>, bs)
\* The blocks the template chunkers look at.
ContentBlocks(bs) ==
    LET sorted == InReadingOrder(bs)
    IN  At(sorted, {n \in DOMAIN sorted : sorted[n].type \notin SkipTypes /\ sorted[n].line # "blank"})
===============================================================================
