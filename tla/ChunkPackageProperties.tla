------------------------- MODULE ChunkPackageProperties -------------------------
(* What the passes of module ChunkPackage promise. *)
EXTENDS ChunkPackage

Chunk == [id : Seq(Nat), parent : Nat, kind : Kind, text : Seq(Token), heading : Seq(Token),
          first : Nat, last : Nat, blocks : SUBSET Nat]

\* Types; the loop variables stay within their lists, and pages within the document.
TypeOK ==
    /\ children \in Seq(Chunk) /\ given \in Seq(Chunk)
    /\ parents \in Seq([id : Nat, kids : Seq(Seq(Nat)), blocks : SUBSET Nat])
    /\ pass \in Pass
    /\ at.parent \in 1..(Len(parents) + 1) /\ at.child \in 1..(Len(children) + 1)
    /\ \A c \in ToSet(children) : c.first <= c.last

\* The text of the blocks, in order: headings are repeated and running headers go.
Written(cs) ==
    LET texts == FlattenSeq([k \in DOMAIN cs |-> cs[k].text])
        kept  == At(texts, {k \in DOMAIN texts : texts[k].role \in {"body", "punct"}})
    IN  [k \in DOMAIN kept |-> <<kept[k].of, kept[k].role, kept[k].at>>]

Media(cs) == At(cs, {k \in DOMAIN cs : Protected(cs[k])})

(***************************************************************************)
(* No pass loses, repeats or reorders text: what the chunks of a document   *)
(* hold, read one after the other, is what the chunker emitted, whatever    *)
(* was moved, joined, merged and cut into parts and slices.  Chunks of the  *)
(* protected types (table, figure, caption, image_context) stay as they     *)
(* are: no text moves into or out of them.  A table in a chunk of another   *)
(* type is joined and merged like text.                                     *)
(***************************************************************************)
TextPreserved ==
    /\ Written(children) = Written(given)
    /\ Media(children) = Media(given)

(***************************************************************************)
(* Both sides of parent and child agree after every step: a parent lists    *)
(* the ids of its children in their order, and no child is left without     *)
(* its parent or shares its id, for which build_chunks_for_ingest raises.   *)
(* If validate_chunk_package warns at all, then that a chunk of text has a  *)
(* table or figure in it, and only of a document whose chunker itself put a *)
(* table into a chunk of an unprotected type (rows of a table, a table of   *)
(* troubles, a table in an answer): the passes put none there.              *)
(***************************************************************************)
LinksAgree ==
    /\ \A p \in ToSet(parents) : p.kids = Ids(Of(p.id, children))
    /\ ParentsAreKnown
    /\ KeysAreUnique
    /\ warned \subseteq {"media"}
    /\ "media" \in warned => \E c \in ToSet(given) : c.kind \in {"rows", "inline"}

(***************************************************************************)
(* A reference to a chunk leads to its text: the blocks of a chunk, which   *)
(* are among those of its parent, and its pages cover every piece of a      *)
(* body that it holds, whichever parent and page the piece came from.       *)
(***************************************************************************)
SourcesAreNamed ==
    \A c \in ToSet(children) :
        /\ \E p \in ToSet(parents) : p.id = c.parent /\ c.blocks \subseteq p.blocks
        /\ \A t \in ToSet(c.text) : t.role = "body" =>
               /\ t.of \in c.blocks
               /\ given[t.of].first \in c.first..c.last

(***************************************************************************)
(* What the passes leave too small or too large has a reason.  After the    *)
(* merging pass a small chunk that was not cut from a larger one has nobody *)
(* to merge with: all its siblings beside it are media.  A chunk of text    *)
(* above the maximum, when all passes are over, is one word that the        *)
(* splitting at spaces does not cut, or one with a heading that leaves no   *)
(* room, although joining and merging made chunks longer than the chunker   *)
(* allows.                                                                  *)
(***************************************************************************)
LeftoversExplained ==
    /\ pass \in {"split", "store", "stored"} =>
           \A p \in ToSet(parents) :
               LET cs == Of(p.id, children)
               IN  \A k \in DOMAIN cs :
                       Small(cs[k]) /\ Len(cs[k].id) = 1 =>
                           \A j \in {k - 1, k + 1} \cap DOMAIN cs : Protected(cs[j])
    /\ pass \in {"store", "stored"} =>
           \A c \in ToSet(children) : Splittable(c) =>
               \/ Len(Words(BodyOf(c))) = 1
               \/ Count(c.heading) + 2 >= MaxTokens /\ Count(BodyOf(c)) <= 1

(***************************************************************************)
(* The loops end: although they remove, add and revisit the elements of the *)
(* lists they walk over, each iteration leaves less to do (of the passes,   *)
(* the parents, the children, in this order).                               *)
(***************************************************************************)
PassesLeft == [repair |-> 5, across |-> 4, merge |-> 3, split |-> 2, store |-> 1,
               stored |-> 0, raised |-> 0][pass]
ParentsLeft == Len(parents) - at.parent
ChildrenLeft == Len(children) - at.child

LoopsEnd ==
    [][\/ PassesLeft' < PassesLeft
       \/ PassesLeft' = PassesLeft /\ ParentsLeft' < ParentsLeft
       \/ /\ PassesLeft' = PassesLeft /\ ParentsLeft' = ParentsLeft
          /\ ChildrenLeft' < ChildrenLeft]_vars

(***************************************************************************)
(* The text of a parent holds the text of its children, where parent        *)
(* expansion looks for it (docs/M4-design.md:565 keeps the tokens around    *)
(* the child that was hit).  The code does not keep this: JoinAcross moves  *)
(* text from one parent to another.  No run checks it.                      *)
(***************************************************************************)
ParentHoldsText ==
    \A c \in ToSet(children) : \A t \in ToSet(c.text) :
        t.role = "body" => given[t.of].parent = c.parent
===============================================================================
