------------------------------ MODULE ChunkPackage ------------------------------
(***************************************************************************)
(* The passes over the chunks of a document between the template chunker    *)
(* and the rows of the database: boundary repair within and across parents, *)
(* merging of small chunks, splitting of overlong ones (parse_to_chunk_     *)
(* package), and the mapping to rows (build_chunks_for_ingest).  Each step  *)
(* is one iteration of the loop of a pass.                                  *)
(*                                                                          *)
(* A chunker emits the children of one parent next to each other and lists  *)
(* their ids in the same order.  Each child here has one block, and its     *)
(* page; the blocks are numbered in reading order.                          *)
(***************************************************************************)
EXTENDS Texts

CONSTANTS
    Shape,        \* the kinds of children a chunker emits
    MaxChildren,  \* bound: children of the package
    MaxTokens,    \* child_max_tokens
    MinTokens     \* child_min_tokens

ASSUME SizesAreNumbers ==
    /\ MaxChildren \in Nat /\ MaxTokens \in Nat \ {0} /\ MinTokens \in Nat

\* A body starts like a text of the document, not like what the page puts around it.
ASSUME ShapesAreChildren ==
    Shape \subseteq [kind : {"text", "media", "rows", "inline"}, title : Nat,
                    lead : {"none", "header", "punct"}, words : Seq(Nat),
                    starts : {"joins", "section", "fresh"}, ends : End]

VARIABLES
    parents,   \* ChunkPackage.parent_chunks
    children,  \* ChunkPackage.child_chunks
    pass,      \* the pass that runs
    at,        \* loop variables: index of the parent, index of the child
    warned,    \* what validate_chunk_package warns of
    given      \* history: the children as the chunker emitted them

vars == <<parents, children, pass, at, warned, given>>

Pass == {"repair", "across", "merge", "split", "store", "stored", "raised"}
\* "media": a table, a figure, a caption or its context, which every pass protects.  "rows": a
\* row group of a table, which the last pass alone protects.  "inline": a table or a figure in a
\* chunk of another type, which no pass protects (manual_troubleshooting_table, and qa_pair with
\* a table in its answer).
Kind == {"text", "media", "rows", "inline"}

(***************************************************************************)
(* What a chunker emits                                                     *)
(***************************************************************************)
Piece(of, role, k, starts, ends, gap) ==
    [of |-> of, role |-> role, at |-> k, starts |-> starts, ends |-> ends, gap |-> gap]

\* Children of one parent share their heading, or the first part of it.
Heading(shape, parent) ==
    [k \in 1..shape.title |-> Piece(parent, "heading", <<0, k>>, shape.starts, "open", k = 1)]

\* What comes before the first words: a running header of the page, orphan punctuation.
Lead(i, shape) ==
    CASE shape.lead = "header" -> <<Piece(i, "header", <<0, 0>>, "header", "open", TRUE)>>
      [] shape.lead = "punct"  -> <<Piece(i, "punct", <<0, 0>>, "punct", "soft", TRUE)>>
      [] OTHER -> <<>>

Body(i, shape) ==
    FlattenSeq([w \in DOMAIN shape.words |->
        [k \in 1..shape.words[w] |->
            Piece(i, "body", <<w, k>>, shape.starts, shape.ends, k = 1)]])

Emitted(i, shape, parent, page) ==
    [id |-> <<i>>, parent |-> parent, kind |-> shape.kind,
     text |-> Heading(shape, parent) \o Lead(i, shape) \o Body(i, shape),
     heading |-> Heading(shape, parent),
     first |-> page, last |-> page, blocks |-> {i}]

Ids(cs) == [k \in DOMAIN cs |-> cs[k].id]
Of(p, cs) == At(cs, {k \in DOMAIN cs : cs[k].parent = p})

\* A group of nothing but headings makes a parent without children; what becomes of it depends
\* neither on its place nor on its text.
Childless == [id |-> 0, kids |-> <<>>, blocks |-> {}]

\* Numbers that start at 1 and grow by at most 1: the parents, and the pages, of children.
Ascending(n) == {f \in [1..n -> 1..n] :
                    f[1] = 1 /\ \A i \in 2..n : f[i] - f[i - 1] \in {0, 1}}

Init ==
    /\ \E n \in 1..MaxChildren : \E shape \in [1..n -> Shape],
                                    owner \in Ascending(n), page \in Ascending(n) :
           /\ children = [i \in 1..n |-> Emitted(i, shape[i], owner[i], page[i])]
           /\ parents \in {before \o [p \in 1..owner[n] |->
                  [id |-> p, kids |-> Ids(Of(p, children)),
                   blocks |-> UNION {c.blocks : c \in ToSet(Of(p, children))}]] :
                  before \in {<<>>, <<Childless>>}}
    /\ given = children
    /\ warned = {}
    /\ pass = "repair"
    /\ at = [parent |-> 1, child |-> 1]

(***************************************************************************)
(* Absorbing a chunk                                                        *)
(***************************************************************************)
\* Mutation: pages and blocks of the source are forgotten.
AbsorbText(target, source, gap) == [target EXCEPT !.text = @ \o Spaced(source.text, gap)]
Absorb(target, source, gap) ==
    [target EXCEPT !.text = @ \o Spaced(source.text, gap),
                   !.first = Min({@, source.first}),
                   !.last = Max({@, source.last}),
                   !.blocks = @ \cup source.blocks]

\* Mutation: the absorbed chunk stays in the list.
WithoutPop(cs, c) == cs
Without(cs, c) == At(cs, {k \in DOMAIN cs : cs[k].id # c.id})
Unlisted(ids, id) == At(ids, {k \in DOMAIN ids : ids[k] # id})
With(cs, c) == [k \in DOMAIN cs |-> IF cs[k].id = c.id THEN c ELSE cs[k]]

Advance == at' = [at EXCEPT !.child = @ + 1]
NextParent == at' = [parent |-> at.parent + 1, child |-> 1]
\* Mutation: a pass starts where the last one stopped.
EnterHere(p) == pass' = p /\ UNCHANGED at
Enter(p) == pass' = p /\ at' = [parent |-> 1, child |-> 1]

InParents == at.parent <= Len(parents)
Siblings == Of(parents[at.parent].id, children)

(***************************************************************************)
(* Boundary repair                                                          *)
(***************************************************************************)
Protected(c) == c.kind = "media"

OrphanPunct(curr, nxt) ==
    /\ curr.text # <<>> /\ nxt.text # <<>>
    /\ Head(nxt.text).starts = "punct"

\* The breaks other than punctuation, which need a page boundary.
RunsOn(curr, nxt) ==
    /\ curr.text # <<>> /\ nxt.text # <<>>
    /\ Head(nxt.text).starts # "punct"
    /\ nxt.first > curr.first
    /\ Last(curr.text).ends # "closed"
    /\ Head(nxt.text).starts \in {"joins", "section", "header"} \/ Last(curr.text).ends = "soft"

Broken(curr, nxt) ==
    /\ ~Protected(curr) /\ ~Protected(nxt)
    /\ OrphanPunct(curr, nxt) \/ RunsOn(curr, nxt)

\* Mutation: only the parent of curr knows.
TakeUnseen(curr, nxt) ==
    /\ children' = With(Without(children, nxt), Absorb(curr, nxt, FALSE))
    /\ parents' = [q \in DOMAIN parents |->
           IF parents[q].id # curr.parent THEN parents[q]
           ELSE [parents[q] EXCEPT !.kids = Unlisted(@, nxt.id), !.blocks = @ \cup nxt.blocks]]
\* The chunk nxt goes, and its parent and the parent of curr know.
Take(curr, nxt) ==
    /\ children' = With(Without(children, nxt), Absorb(curr, nxt, FALSE))
    /\ parents' = [q \in DOMAIN parents |->
           [parents[q] EXCEPT !.kids = Unlisted(@, nxt.id),
                              !.blocks = IF parents[q].id = curr.parent
                                         THEN @ \cup nxt.blocks ELSE @]]

InRepair == pass = "repair" /\ InParents /\ at.child < Len(Siblings)

LeavePair ==
    /\ InRepair
    /\ ~Broken(Siblings[at.child], Siblings[at.child + 1])
    /\ Advance
    /\ UNCHANGED <<parents, children, pass, warned, given>>

MovePunct ==
    /\ InRepair
    /\ LET curr == Siblings[at.child]
           nxt  == Siblings[at.child + 1]
           to   == [curr EXCEPT !.text = Append(@, [Head(nxt.text) EXCEPT !.gap = FALSE])]
           rest == [nxt EXCEPT !.text = Tail(@)]
       IN  /\ Broken(curr, nxt) /\ OrphanPunct(curr, nxt)
           /\ IF rest.text = <<>> THEN Take(to, rest) /\ UNCHANGED at
              ELSE /\ children' = With(With(children, to), rest)
                   /\ Advance
                   /\ UNCHANGED parents
    /\ UNCHANGED <<pass, warned, given>>

JoinPair ==
    /\ InRepair
    /\ LET curr == Siblings[at.child]
           nxt  == Siblings[at.child + 1]
       IN  Broken(curr, nxt) /\ RunsOn(curr, nxt) /\ Take(curr, nxt)
    /\ UNCHANGED <<pass, at, warned, given>>

LeaveParent ==
    /\ pass = "repair" /\ InParents /\ at.child >= Len(Siblings)
    /\ NextParent
    /\ UNCHANGED <<parents, children, pass, warned, given>>

EndRepair ==
    /\ pass = "repair" /\ ~InParents
    /\ Enter("across")
    /\ UNCHANGED <<parents, children, warned, given>>

(***************************************************************************)
(* Repair across parents: neighbours of the package                         *)
(***************************************************************************)
InAcross == pass = "across" /\ at.child < Len(children)

StripHeaders(text) ==
    LET others == {k \in DOMAIN text : text[k].role # "header"}
    IN  IF others = {} THEN <<>> ELSE SubSeq(text, Min(others), Len(text))

Candidate(curr, nxt) == curr.parent # nxt.parent /\ Broken(curr, nxt)
NextPage(curr, nxt) == nxt.first = curr.last + 1
Stripped(nxt) == [nxt EXCEPT !.text = StripHeaders(@)]
\* _safe_cross_parent_merge
Safe(curr, nxt) ==
    /\ NextPage(curr, nxt)
    /\ StripHeaders(nxt.text) # <<>>
    /\ Head(StripHeaders(nxt.text)).starts \in {"joins", "punct"}

\* The text that was looked at without its running header stays without it.
LeaveAcross ==
    /\ InAcross
    /\ LET curr == children[at.child]
           nxt  == children[at.child + 1]
       IN  /\ ~(Candidate(curr, nxt) /\ Safe(curr, nxt))
           /\ children' = IF Candidate(curr, nxt) /\ NextPage(curr, nxt)
                          THEN With(children, Stripped(nxt)) ELSE children
    /\ Advance
    /\ UNCHANGED <<parents, pass, warned, given>>

JoinAcross ==
    /\ InAcross
    /\ LET curr == children[at.child]
           nxt  == children[at.child + 1]
       IN  Candidate(curr, nxt) /\ Safe(curr, nxt) /\ Take(curr, Stripped(nxt))
    /\ UNCHANGED <<pass, at, warned, given>>

\* Some chunk was taken from another parent.
TakenAcross == \E c \in ToSet(children) : \E b \in c.blocks : given[b].parent # c.parent
\* Only then the parents without children go, those that never had one among them.
EndAcross ==
    /\ pass = "across" /\ at.child >= Len(children)
    /\ parents' = IF TakenAcross
                  THEN At(parents, {q \in DOMAIN parents : parents[q].kids # <<>>})
                  ELSE parents
    /\ Enter("merge")
    /\ UNCHANGED <<children, warned, given>>

(***************************************************************************)
(* Small chunks                                                             *)
(***************************************************************************)
Threshold == Max({1, MinTokens \div 2})
Small(c) == ~Protected(c) /\ Count(c.text) < Threshold

TakesNext(cs, k) == k < Len(cs) /\ ~Protected(cs[k + 1])
JoinsPrevious(cs, k) == k > 1 /\ ~Protected(cs[k - 1])

\* Mutation: a small chunk only looks forward.
MergeableForward(cs) == {k \in DOMAIN cs : Small(cs[k]) /\ TakesNext(cs, k)}
Mergeable(cs) == {k \in DOMAIN cs : Small(cs[k]) /\ (TakesNext(cs, k) \/ JoinsPrevious(cs, k))}

MergeSmall ==
    /\ pass = "merge" /\ InParents /\ Mergeable(Siblings) # {}
    /\ LET cs == Siblings
           k  == Min(Mergeable(cs))
           target == IF TakesNext(cs, k) THEN cs[k] ELSE cs[k - 1]
           source == IF TakesNext(cs, k) THEN cs[k + 1] ELSE cs[k]
       IN  /\ children' = With(Without(children, source), Absorb(target, source, TRUE))
           /\ parents' = [parents EXCEPT ![at.parent].kids = Unlisted(@, source.id)]
    /\ UNCHANGED <<pass, at, warned, given>>

EndMerge ==
    /\ pass = "merge"
    /\ IF InParents THEN Mergeable(Siblings) = {} /\ NextParent /\ UNCHANGED pass
       ELSE Enter("split")
    /\ UNCHANGED <<parents, children, warned, given>>

(***************************************************************************)
(* Overlong chunks                                                          *)
(***************************************************************************)
Splittable(c) == c.kind \in {"text", "inline"} /\ Count(c.text) > MaxTokens

BodyOf(c) ==
    IF IsPrefix(c.heading, c.text)
    THEN SubSeq(c.text, Len(c.heading) + 1, Len(c.text)) ELSE c.text
WithHeading(text, heading) == IF IsPrefix(heading, text) THEN text ELSE heading \o text
BodyLimit(heading) ==
    IF heading = <<>> THEN MaxTokens
    ELSE IF Count(heading) + 2 < MaxTokens THEN MaxTokens - Count(heading) - 2 ELSE 1

PartsOf(c, texts) ==
    [k \in DOMAIN texts |-> [c EXCEPT !.id = Append(@, k), !.text = WithHeading(texts[k], c.heading)]]
Parts(c) ==
    LET texts == SplitText(BodyOf(c), BodyLimit(c.heading))
    IN  IF Splittable(c) /\ Len(texts) > 1 THEN PartsOf(c, texts) ELSE <<c>>

Split ==
    /\ pass = "split" /\ at.child <= Len(children)
    /\ LET c == children[at.child]
           parts == Parts(c)
       IN  /\ children' = SubSeq(children, 1, at.child - 1) \o parts
                          \o SubSeq(children, at.child + 1, Len(children))
           /\ parents' = [q \in DOMAIN parents |-> [parents[q] EXCEPT !.kids =
                  FlattenSeq([k \in DOMAIN @ |-> IF @[k] = c.id THEN Ids(parts) ELSE <<@[k]>>])]]
           /\ at' = [at EXCEPT !.child = @ + Len(parts)]
    /\ UNCHANGED <<pass, warned, given>>

\* validate_chunk_package: it warns of every table or figure in a chunk of another type, also of
\* those that the chunker itself put there ("rows", "inline").
PackageWarnings ==
    LET listed(p) == ToSet(p.kids)
        parentOf(c) == {p \in ToSet(parents) : p.id = c.parent}
    IN  {w \in {"duplicate", "orphan", "unlisted", "no source", "pages", "missing child", "media"} :
            /\ w = "duplicate" => ~IsInjective(Ids(children))
            /\ w = "orphan" => \E c \in ToSet(children) : parentOf(c) = {}
            /\ w = "unlisted" => \E c \in ToSet(children) : \E p \in parentOf(c) : c.id \notin listed(p)
            /\ w = "no source" => \E c \in ToSet(children) : c.blocks = {}
            /\ w = "pages" => \E c \in ToSet(children) : c.last < c.first
            /\ w = "missing child" =>
                   \E p \in ToSet(parents) : ~(listed(p) \subseteq ToSet(Ids(children)))
            /\ w = "media" => \E c \in ToSet(children) : \E b \in c.blocks :
                                  given[b].kind # "text" /\ c.kind # "media"}

EndSplit ==
    /\ pass = "split" /\ at.child > Len(children)
    /\ warned' = PackageWarnings
    /\ Enter("store")
    /\ UNCHANGED <<parents, children, given>>

(***************************************************************************)
(* build_chunks_for_ingest                                                  *)
(***************************************************************************)
KeysAreUnique == IsInjective(Ids(children)) /\ IsInjective([p \in DOMAIN parents |-> parents[p].id])
ParentsAreKnown == {c.parent : c \in ToSet(children)} \subseteq {p.id : p \in ToSet(parents)}

Store ==
    /\ pass = "store"
    /\ pass' = IF KeysAreUnique /\ ParentsAreKnown THEN "stored" ELSE "raised"
    /\ UNCHANGED <<parents, children, at, warned, given>>

Stop == pass \in {"stored", "raised"} /\ UNCHANGED vars

Next ==
    \/ LeavePair \/ MovePunct \/ JoinPair \/ LeaveParent \/ EndRepair
    \/ LeaveAcross \/ JoinAcross \/ EndAcross
    \/ MergeSmall \/ EndMerge
    \/ Split \/ EndSplit
    \/ Store
    \/ Stop

Spec == Init /\ [][Next]_vars
===============================================================================
