------------------------------ MODULE MediaContext ------------------------------
(***************************************************************************)
(* attach_media_context: a table or figure that is a chunk of its own says  *)
(* little, so the chunk carries captions beside it and neighbours in its    *)
(* section.                                                                 *)
(***************************************************************************)
EXTENDS Blocks

CONSTANT Window   \* table_context_blocks and image_context_blocks

ASSUME WindowIsNumber == Window \in Nat

\* The blocks from the front of the sequence that belong to the section of b
InSection(bs, b) ==
    LET out == SelectInSeq(bs, LAMBDA c : c.path # b.path)
    IN  IF out = 0 THEN bs ELSE SubSeq(bs, 1, out - 1)
\* What can be a neighbour: the nearest ones, as many as the window has
Neighbour(c) == c.type \notin {"header", "table", "figure"} /\ c.line # "blank"
Nearest(bs) ==
    LET kept == At(bs, {n \in DOMAIN bs : Neighbour(bs[n])})
    IN  IdsOf(SubSeq(kept, 1, Min({Window, Len(kept)})))
\* Mutation: the walk goes on past the end of the section.
NeighboursAnywhere(bs, b) == Nearest(bs)
\* _neighbor_texts, from the nearest one
Neighbours(bs, b) == Nearest(InSection(bs, b))

\* _caption_context: the captions right before and right after, on the same page
CaptionAt(bs, j, k) ==
    IF j \in DOMAIN bs /\ bs[j].page = bs[k].page /\ bs[j].type = "caption" /\ bs[j].line # "blank"
    THEN <<bs[j].id>> ELSE <<>>
Captions(bs, k) == CaptionAt(bs, k - 1, k) \o CaptionAt(bs, k + 1, k)

\* Children of these types get a context, from the place of their first block.
ContextTypes == {"table", "figure", "caption"}
Context(child, document) ==
    LET bs == InReadingOrder(document)
        k == SelectInSeq(bs, LAMBDA c : c.id = child.blocks[1].id)
        above == Reverse(Neighbours(Reverse(SubSeq(bs, 1, k - 1)), bs[k]))
        below == Neighbours(SubSeq(bs, k + 1, Len(bs)), bs[k])
    IN  IF child.type \notin ContextTypes THEN [before |-> <<>>, after |-> <<>>]
        ELSE [before |-> Captions(bs, k) \o above, after |-> below]
===============================================================================
