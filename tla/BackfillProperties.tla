-------------------------- MODULE BackfillProperties --------------------------
(***************************************************************************)
(* What the embedding backfill promises to those who read its result and   *)
(* to those who search the vectors.                                        *)
(***************************************************************************)
EXTENDS Backfill

\* A vector is only ever written to a chunk that is active when the batch
\* commits: a document superseded or deleted while the provider was embedding
\* its chunks gets none (upsert_chunks locks the rows and looks again).
VectorsGoToActiveChunks ==
    [][\A r \in Run : wrote'[r] \ wrote[r] \subseteq ActiveChunks]_vars

\* The numbers of a run add up: it never takes more chunks than its limit, each
\* one it took succeeded or failed, and the chunks it calls succeeded are as many
\* different chunks, all of them committed, also after a batch that failed.
CountsAreHonest ==
    \A r \in Run : pc[r] = "done" =>
        /\ count[r].attempted = count[r].succeeded + count[r].failed
        /\ count[r].attempted <= request[r].limit
        /\ count[r].succeeded = Cardinality(wrote[r])
        /\ wrote[r] \subseteq embedded

\* A run over the whole table that ends below its limit with no failure has left
\* nothing behind: each chunk that was active when it began has a vector, or its
\* document was retired meanwhile.
FullRunLeavesNothing ==
    \A r \in Run :
        /\ pc[r] = "done"
        /\ request[r].ids = {} /\ ~request[r].force
        /\ count[r].failed = 0
        /\ count[r].attempted < request[r].limit
        => seen[r] \cap ActiveChunks \subseteq embedded

\* Runs lock chunk rows in any order and so may block each other and the
\* transactions that retire documents, but none of them waits for ever.
EveryCallEnds ==
    \A c \in Call : pc[c] # "idle" ~> pc[c] \in Over

-------------------------------------------------------------------------------
(* What the design documents say, and the code does not do.                *)

\* The run after an upload asks for all the chunks of its document, and a result
\* without failures reads as: they are all embedded.
SucceededMeansEmbedded ==
    \A r \in Run :
        /\ pc[r] = "done"
        /\ request[r].ids # {}
        /\ count[r].failed = 0
        => request[r].ids \cap ActiveChunks \subseteq embedded
===============================================================================
