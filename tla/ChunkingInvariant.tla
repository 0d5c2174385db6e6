--------------------------- MODULE ChunkingInvariant ---------------------------
(***************************************************************************)
(* Why the properties hold.  What was tried and what is still to be tried  *)
(* make up the list, until a parser is accepted (Chain).  From then on the *)
(* document is what the passes so far make of the blocks of the parser,    *)
(* which are sound and in order (Passes).                                  *)
(***************************************************************************)
EXTENDS ChunkingProperties

List == Priority(job.parser, job.suffix)
Works(parser) == job.world[parser] \notin {"absent", "fails"}

ChainTypes == queue \in Seq(Parser) /\ attempted \in Seq(Parser) /\ stage \in Stage

\* While parsers are tried, or when none is left
Underway ==
    stage \in {"attempt", "mineru", "refused"} =>
        attempted \o queue = List /\ warned = ToSet(attempted)

\* MinerU is the parser whose turn it is for as long as its task runs.
TaskIsNext == stage = "mineru" => queue # <<>> /\ Current = "mineru" /\ Works("mineru")

\* From the acceptance on: the last parser that was tried is the one that found something.
Accepted ==
    Parsed =>
        /\ attempted # <<>> /\ IsPrefix(attempted, List) /\ warned = ToSet(Front(attempted))
        /\ parsed # <<>> /\ Works(Last(attempted))

Chain == ChainTypes /\ Underway /\ (stage = "refused" => queue = <<>>) /\ TaskIsNext /\ Accepted

-----------------------------------------------------------------------------
\* What becomes a heading has a title.
Entitled(b) == Classified(b) \/ Inferred(b) => b.title # <<>>
\* A block that has a box is one item: what follows its first line is more lines, and the first
\* line of an article does not end like page junk.
Lined(b) ==
    b.band # 0 => /\ \A k \in 3..Len(b.text) : b.text[k].part \in {"more", "mark"}
                  /\ ArticleLine(b) => b.text[2].part # "mark"
\* The id of a block is its order; its text is of at least two pieces, none of them twice.
Sound(b) ==
    /\ b \in Block
    /\ b.id = b.order
    /\ Entitled(b)
    /\ Lined(b)
    /\ Len(b.text) >= 2 /\ IsInjective(b.text)
    /\ \A k \in 1..Len(b.text) : b.id <= b.text[k].of
EndsBefore(b, n) == b.id < n /\ \A k \in 1..Len(b.text) : b.text[k].of < n
\* Blocks in their order; what a block took from the items behind it is before the next one.
Orderly(bs) ==
    /\ bs \in Seq(Block)
    /\ \A k \in 1..Len(bs) : Sound(bs[k])
    /\ \A k \in 1..Len(bs), j \in 1..Len(bs) : j < k => EndsBefore(bs[j], bs[k].id)

\* MinerU is downloaded from only a few times.
Serving ==
    /\ service \in [step : Step, polls : 0..PollLimit, downloads : 0..DownloadAttempts]
    /\ service.step \in {"create", "upload", "poll", "download"} =>
           service.downloads < DownloadAttempts

\* The pages list the blocks that are there.
Listed(bs) == [p \in PagesOf(parsed) |-> IdsOnPage(parsed, p) \cap IdSet(bs)]
\* Each pass makes its part of what the one before it left.
Passes ==
    /\ parsed # <<>> => Orderly(parsed)
    /\ ~Parsed => parsed = <<>> /\ blocks = <<>> /\ kind = "none"
    /\ stage = "clean" => blocks = parsed /\ pages = Listed(parsed) /\ kind = "none"
    /\ stage = "tree" => blocks = Cleaned(parsed) /\ pages = Listed(blocks) /\ kind = "none"
    /\ stage \in {"chunk", "done"} =>
           /\ blocks = PlacedBlocks(Cleaned(parsed)) /\ pages = Listed(Cleaned(parsed))
           /\ tree = TreeOf(blocks)
           /\ reported = DocumentWarnings(blocks, pages, tree)
           /\ kind \in Template
    /\ stage \in {"attempt", "mineru", "refused", "clean", "tree", "chunk"} =>
           parents = <<>> /\ children = <<>>
    /\ stage = "done" =>
           /\ parents = Package(kind, blocks).parents
           /\ children = Package(kind, blocks).children

Calls == caller \in {"waits", "has it", "gave up", "raised"}
ChunkingInv == job \in Jobs /\ Chain /\ Serving /\ Passes /\ Calls
===============================================================================
