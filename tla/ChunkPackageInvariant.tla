------------------------- MODULE ChunkPackageInvariant -------------------------
(***************************************************************************)
(* Why the properties of module ChunkPackageProperties hold: what is true   *)
(* of every chunk, of the order of the chunks and of the parents after      *)
(* every step of the passes, and what the loop variables say of the work    *)
(* that is done.                                                            *)
(***************************************************************************)
EXTENDS ChunkPackageProperties

Family == [id : Nat, kids : Seq(Seq(Nat)), blocks : SUBSET Nat]

\* The words of a body start like none of the texts that boundary repair moves or drops, and
\* belong to the blocks and the pages that the chunk names.
Sourced(c) ==
    \A t \in ToSet(c.text) : t.role = "body" =>
        /\ t.starts # "punct"
        /\ t.of \in c.blocks
        /\ given[t.of].first \in c.first..c.last

Formed(c) ==
    /\ c \in Chunk
    /\ Len(c.id) \in {1, 2}
    /\ c.first <= c.last
    /\ c.blocks # {} /\ c.blocks \subseteq DOMAIN given
    /\ c.kind # "media" => \A b \in c.blocks : given[b].kind # "media"
    /\ \A t \in ToSet(c.heading) : t.role = "heading"
    /\ Sourced(c)

\* Reading order: chunks of a parent stay together, and only the parts of a chunk share the
\* first number of their ids.
Before(c, d) ==
    /\ c.parent <= d.parent
    /\ \/ c.id[1] < d.id[1]
       \/ /\ c.id[1] = d.id[1] /\ Len(c.id) = 2 /\ Len(d.id) = 2
          /\ c.id[2] < d.id[2]
InOrder(cs) == \A i, j \in DOMAIN cs : i < j => Before(cs[i], cs[j])

\* What the parents know of their children.
Linked(ps, cs) ==
    /\ ps \in Seq(Family)
    /\ \A i, j \in DOMAIN ps : ps[i].id = ps[j].id => i = j
    /\ \A c \in ToSet(cs) : \E p \in ToSet(ps) : p.id = c.parent
    /\ \A p \in ToSet(ps) :
           /\ p.kids = Ids(Of(p.id, cs))
           /\ \A c \in ToSet(cs) : c.parent = p.id => c.blocks \subseteq p.blocks

\* What a parent whose turn in the merging pass is over looks like.
Settled(p) == Mergeable(Of(p, children)) = {}
\* What a chunk that the splitting pass is past looks like.
Short(c) ==
    Splittable(c) => \/ Len(Words(BodyOf(c))) = 1
                     \/ Count(c.heading) + 2 >= MaxTokens /\ Count(BodyOf(c)) <= 1
\* A small chunk that is not a part of another one, and nobody to merge with.
Alone(cs) ==
    \A k \in DOMAIN cs : Small(cs[k]) /\ Len(cs[k].id) = 1 =>
        \A j \in {k - 1, k + 1} \cap DOMAIN cs : Protected(cs[j])

Types ==
    /\ given \in Seq(Chunk)
    /\ pass \in Pass
    /\ at \in [parent : Nat \ {0}, child : Nat \ {0}]
    /\ at.parent <= Len(parents) + 1 /\ at.child <= Len(children) + 1

Chunks ==
    /\ children \in Seq(Chunk)
    /\ \A c \in ToSet(children) : Formed(c)
    /\ InOrder(children)
    /\ Linked(parents, children)

\* What is done, pass by pass.
Progress ==
    /\ pass \in {"repair", "across", "merge"} => \A c \in ToSet(children) : Len(c.id) = 1
    /\ pass = "merge" =>
           /\ at.child = 1
           /\ \A i \in DOMAIN parents : i < at.parent => Settled(parents[i].id)
    /\ pass = "split" =>
           \A k \in DOMAIN children : IF k < at.child THEN Short(children[k])
                                      ELSE Len(children[k].id) = 1
    /\ pass \in {"split", "store", "stored"} =>
           \A p \in ToSet(parents) : Alone(Of(p.id, children))
    /\ pass \in {"store", "stored"} => \A c \in ToSet(children) : Short(c)

Warned ==
    warned # {} => warned = {"media"} /\ \E c \in ToSet(given) : c.kind \in {"rows", "inline"}

Passing == Types /\ Chunks /\ Progress /\ Warned /\ TextPreserved
===============================================================================
