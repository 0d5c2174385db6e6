--------------------------- MODULE ChunkingProperties ---------------------------
(* What the parsing and chunking of a document promises. *)
EXTENDS Chunking

Parsed == stage \in {"clean", "tree", "chunk", "done"}
Kids(p) == At(children, {n \in DOMAIN children : children[n].parent = p.id})
BlocksOf(cs) == FlattenSeq([k \in DOMAIN cs |-> cs[k].blocks])
Looked == ContentBlocks(blocks)

TypeOK ==
    /\ stage \in Stage /\ kind \in Template \cup {"none"}
    /\ queue \in Seq(Parser) /\ attempted \in Seq(Parser) /\ warned \subseteq Parser
    /\ service.step \in Step /\ service.polls \in 0..PollLimit
    /\ service.downloads \in 0..DownloadAttempts
    /\ caller \in {"waits", "has it", "gave up", "raised"}
    /\ \A b \in ToSet(parsed) \cup ToSet(blocks) : b.type \in BlockType /\ b.line \in Line

(***************************************************************************)
(* The parsers are tried in the order of the list, each is recorded and all *)
(* but the one that is used are named by a warning; the one that is used    *)
(* found something, and the document is refused only when no parser is left *)
(* (parser_fallback_chain, M2-design.md:501).                               *)
(***************************************************************************)
FallbackRecorded ==
    LET list == Priority(job.parser, job.suffix)
    IN  /\ IsPrefix(attempted, list)
        /\ stage = "refused" => attempted = list /\ warned = ToSet(list)
        /\ Parsed => parsed # <<>> /\ warned = ToSet(Front(attempted))
        /\ Parsed => job.world[Last(attempted)] \notin {"absent", "fails"}

(***************************************************************************)
(* The passes over the document leave what validate_parsed_document wants:  *)
(* it warns of nothing unless all blocks were noise.  A section spans the   *)
(* pages of every block below it, and a block is in the section it names.   *)
(***************************************************************************)
DocumentValid ==
    stage \in {"chunk", "done"} =>
        /\ reported \subseteq {"no blocks"}
        /\ reported # {} => \A b \in ToSet(parsed) : Noise(b, parsed)
        /\ \A b \in ToSet(blocks), q \in DOMAIN tree :
               /\ IsPrefix(q, b.path) => b.page \in tree[q].first..tree[q].last
               /\ b.id \in tree[q].blocks <=> b.path = q

\* The clauses of a group, if each of them made a child
Closed(acc) == Flush(acc, "contract_clause")
ClausesOf(g) ==
    Closed(Walk(Children, LAMBDA acc, b : Clauses(Closed, acc, b), NoChildren, g.blocks)).done
\* The block is in a clause of nothing but headings of one line.
HeadsNothing(b, g) ==
    \E c \in ToSet(ClausesOf(g)) :
        b \in ToSet(c.blocks) /\ \A h \in ToSet(c.blocks) : BareHeading(h)
\* What a template leaves out on purpose.
LeftOut(b) ==
    CASE kind = "book" -> b.line = "toc"
      [] kind = "qa" -> IsHeading(b) /\ b.line # "question"
      [] kind = "contract_terms" ->
             PageJunk(b) \/ \E g \in ToSet(GroupsOf(kind, Chosen(kind, blocks))) : HeadsNothing(b, g)
      [] OTHER -> FALSE
\* A marker that goes to the text beside it leaves its further lines behind ...
Rejoined(b) == kind = "contract_terms" /\ Marker(b) /\ BestBody(Looked, b) # 0
\* ... and all of it when another marker has taken the same text for its own.
Outbid(b) ==
    /\ Rejoined(b)
    /\ \E m \in ToSet(Looked) : /\ m.id # b.id /\ Marker(m)
                                /\ BestBody(Looked, m) = BestBody(Looked, b)
\* A heading, or the first one of a path, has the title of the group that a template starts with.
Clash ==
    /\ kind \in {"manual", "qa", "book"}
    /\ \E b \in ToSet(Looked) : DefaultTitle(kind) \in {b.title, Head(b.path)}

(***************************************************************************)
(* Nothing gets lost between the blocks and the children, and nothing is    *)
(* there twice: every piece of text is in one child, but for what the       *)
(* template leaves out, a marker that another one outbid or the further     *)
(* lines of one, and groups that are filed under two keys.  A contract is   *)
(* without what is or ends like page junk, and without a heading only where *)
(* neither lines below it nor any other text would be in its child.         *)
(***************************************************************************)
TextPlaced ==
    stage = "done" =>
        LET texts == FlattenSeq([k \in DOMAIN BlocksOf(children) |-> BlocksOf(children)[k].text])
        IN  /\ IsInjective(texts) \/ Clash
            /\ \A b \in ToSet(Looked) : \A t \in ToSet(b.text) :
                   \/ t \in ToSet(texts)
                   \/ LeftOut(b) \/ Outbid(b)
                   \/ Rejoined(b) /\ t.part \in {"more", "mark"}

(***************************************************************************)
(* The package is what boundary repair, merging and splitting take for      *)
(* granted: the children of a parent stand next to each other, their parent *)
(* lists them in this order and has their blocks, no key is there twice,    *)
(* and within a parent the text is in reading order, although blocks wait   *)
(* in an open child, or in the steps of a procedure.                        *)
(***************************************************************************)
PackageReadable ==
    stage = "done" =>
        /\ children = FlattenSeq([k \in DOMAIN parents |-> Kids(parents[k])]) \/ Clash
        /\ \A p \in ToSet(parents) :
               LET placed == BlocksOf(Kids(p))
               IN  \/ Clash
                   \/ /\ p.kids = IdsOf(Kids(p)) /\ IsInjective(p.kids)
                      /\ IdSet(placed) \subseteq p.blocks
                      /\ \A j, k \in DOMAIN placed : j < k => Precedes(placed[j], placed[k])
        /\ IsInjective(IdsOf(parents)) \/ Clash

\* The blocks of the child up to the one that makes it too long
TooLongAt(bs) == Min({n \in DOMAIN bs : Tokens(SubSeq(bs, 1, n)) > MaxTokens})
(***************************************************************************)
(* A child is above child_max_tokens only where its template says so: it is *)
(* one block, a question with its answer, a procedure, an abstract or list  *)
(* of references (of type paper_text where a figure cuts it off), or an     *)
(* article that its clauses make too long.                                  *)
(***************************************************************************)
OverlongForAReason ==
    stage = "done" =>
        \A c \in ToSet(children) :
            \/ Len(c.blocks) = 1 \/ Tokens(c.blocks) <= MaxTokens
            \/ c.type \in {"qa_pair", "manual_procedure", "paper_abstract", "paper_references"}
            \/ c.type = "paper_text" /\ \E p \in ToSet(parents) : p.id = c.parent /\ Collected(p.title)
            \/ /\ c.type \in {"legal_article", "contract_clause"}
               /\ TooLongAt(c.blocks) > 1
                    => \A k \in TooLongAt(c.blocks)..Len(c.blocks) : Clause(c.blocks[k])

(***************************************************************************)
(* Tables, figures and captions are children of their own (but for answers  *)
(* and rows), and the context of such a child is from its section, on both  *)
(* sides of it, or a caption beside it.                                     *)
(***************************************************************************)
MediaStandAlone ==
    stage = "done" =>
        \A c \in ToSet(children) :
            LET m == c.blocks[1]
                above == {b \in ToSet(blocks) : b.id \in ToSet(c.context.before)}
                below == {b \in ToSet(blocks) : b.id \in ToSet(c.context.after)}
            IN  /\ (\E b \in ToSet(c.blocks) : Media(b)) =>
                       Len(c.blocks) = 1 \/ c.type \in {"qa_pair", "table_row_group"}
                /\ \A b \in above : b.type = "caption" \/ (b.path = m.path /\ Precedes(b, m))
                /\ \A b \in below : b.path = m.path /\ Precedes(m, b)

(***************************************************************************)
(* Every call ends, and its caller hears of it, although a parser may fail  *)
(* late, MinerU may never finish its task and a download may break.         *)
(***************************************************************************)
EveryParseEnds == <>(stage \in {"done", "refused"} /\ caller # "waits")

-----------------------------------------------------------------------------
(* What the code says of itself and does not do *)

\* A line that is taken for a running header or footer stands on at least half of the pages
\* (clean_page_texts, pdf_parser.py:139-140).
FurnitureRepeats ==
    "pypdf" \in ToSet(attempted) /\ job.world.pypdf = "reads" =>
        \A k \in Furniture(job.items) :
            2 * Cardinality({job.items[j].page : j \in
                    {n \in DOMAIN job.items : SameText(job.items[n], job.items[k])}})
                >= PageCount(job.items)
===============================================================================
