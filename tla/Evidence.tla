-------------------------------- MODULE Evidence --------------------------------
(***************************************************************************)
(* From the ranked chunks of a question to the context and the references   *)
(* of its answer: ParentExpander, ContextAssembler, ReferenceBuilder and    *)
(* the validation of citations.  A block of the context is a chunk with the *)
(* text around it, the parent's or a window of it; a compact block is the   *)
(* chunk alone.                                                             *)
(***************************************************************************)
EXTENDS Lists

CONSTANTS
    Document, Parent, Chunk,
    DocumentOf,    \* the document of each parent ...
    ParentOf,      \* ... and the parent of each chunk
    ChunkTokens,   \* tokens of the compact block of a chunk
    AroundTokens,  \* tokens of the text of its parent that a full block has besides
    Budget         \* Settings.max_context_tokens

ASSUME ChunksBelong ==
    /\ DocumentOf \in [Parent -> Document]
    /\ ParentOf \in [Chunk -> Parent]
ASSUME ChunksAreFinite == IsFiniteSet(Chunk)
ASSUME TokensAreNumbers ==
    /\ ChunkTokens \in [Chunk -> Nat \ {0}] /\ AroundTokens \in [Chunk -> Nat \ {0}]
    /\ Budget \in Nat

\* The chunk at i is the best one of its parent.
Represents(s, i) == \A j \in 1..(i - 1) : ParentOf[s[j]] # ParentOf[s[i]]

\* One candidate for each parent, best first.
Expand(ranked) ==
    Folded(<<>>, [i \in DOMAIN ranked |->
                     [best \in Seq(Chunk) |->
                         IF Represents(ranked, i) THEN Append(best, ranked[i]) ELSE best]])

\* A parent that is not among those found gives no text.
Full(k, found) == ChunkTokens[k] + (IF ParentOf[k] \in found THEN AroundTokens[k] ELSE 0)

Context == [chunks : Seq(Chunk), tokens : Nat, truncated : BOOLEAN]
Empty == [chunks |-> <<>>, tokens |-> 0, truncated |-> FALSE]
With(context, k, tokens) ==
    [chunks |-> Append(context.chunks, k), tokens |-> context.tokens + tokens,
     truncated |-> context.truncated]

\* Mutation: a compact block is taken without looking at the budget again.
AddCompact(context, k, found) ==
    IF context.tokens + Full(k, found) <= Budget THEN With(context, k, Full(k, found))
    ELSE With([context EXCEPT !.truncated = TRUE], k, ChunkTokens[k])
\* A block that does not fit is counted as a compact one, or left out.
Add(context, k, found) ==
    IF context.tokens + Full(k, found) <= Budget THEN With(context, k, Full(k, found))
    ELSE IF context.tokens + ChunkTokens[k] <= Budget
         THEN With([context EXCEPT !.truncated = TRUE], k, ChunkTokens[k])
         ELSE [context EXCEPT !.truncated = TRUE]

AssembleContext(candidates, found) ==
    Folded(Empty, [n \in DOMAIN candidates |->
                      [context \in Context |-> Add(context, candidates[n], found)]])

\* The blocks that are joined to the text of the context: all of them full ones.
SentTokens(chunks, found) ==
    Folded(0, [n \in DOMAIN chunks |-> [sum \in Nat |-> sum + Full(chunks[n], found)]])

(***************************************************************************)
(* Citations                                                                *)
(***************************************************************************)
\* An answer about n references refuses, or cites some numbers: one may be invented.
Answers(n) == [refuses : BOOLEAN, cites : SUBSET (1..(n + 1))]

ValidCitations(answer, n) ==
    answer.refuses \/ (answer.cites # {} /\ answer.cites \subseteq 1..n)

Refusal == [refuses |-> TRUE, cites |-> {}]
\* HTTPAnswerGenerator.generate: an invalid answer is repaired once, or refused.
Generated(n, repairs) ==
    {IF ValidCitations(first, n) THEN first
     ELSE IF repairs /\ ValidCitations(second, n) THEN second ELSE Refusal :
        first \in Answers(n), second \in Answers(n)}
===============================================================================
