-------------------------- MODULE RetrievalInvariant --------------------------
(***************************************************************************)
(* Why the properties about the query log hold: what a call knows of the   *)
(* row under its request id.  Kept, the conjunction of its parts, is       *)
(* inductive.  What the search finds plays no part in it: the invariant    *)
(* Found, inductive where Kept holds, says that it is what the caller may  *)
(* see, and that the result of a call still is what its ranking gives.     *)
(***************************************************************************)
EXTENDS RetrievalProperties

\* A row says who wrote it; there is none or it is complete.
RowsAreComplete ==
    /\ DOMAIN log = RequestId
    /\ \A i \in RequestId : log[i] # NoRow =>
         /\ log[i] = [status |-> log[i].status, references |-> log[i].references,
                      by |-> log[i].by]
         /\ log[i].by \in Call

\* A call that has begun has an id, it has its response when it is over, and a
\* result from the end of the retrieval to the log.
CallsGoOn ==
    /\ pc \in [Call -> Location]
    /\ id \in [Call -> RequestId \cup {None}]
    /\ response \in [Call -> Response]
    /\ DOMAIN result = Call
    /\ \A c \in Call :
         /\ pc[c] # "idle" => id[c] \in RequestId
         /\ response[c] = "none" <=> pc[c] # "done"
         /\ pc[c] \in {"finished", "logged", "committed"} =>
              result[c].status \in {"refused", "failed", "retrieved"}
         /\ pc[c] = "generated" => result[c].status = "retrieved"

\* A call that is about to commit its row is the only one to have inserted that
\* key, and nobody's row has it.
KeyIsHeld ==
    \A c \in Call : pc[c] = "logged" =>
        /\ log[id[c]] = NoRow
        /\ \A x \in Call \ {c} : pc[x] = "logged" => id[x] # id[c]

\* After the commit the row is the call's own and as it was written.
RowIsOwn ==
    \A c \in Call : pc[c] \in {"committed", "generated"} =>
        /\ Own(c)
        /\ log[id[c]].status = result[c].status
        /\ log[id[c]].references = result[c].references

\* Hits are ranked once, and no more of them than a call asks for.
RankedOnce ==
    \A c \in Call : Len(ranked[c]) <= FinalTopK /\ IsInjective(ranked[c])

\* What a call has found or ranked is of documents in its scope when it searched, none
\* of them retired when it read the text of the chunks.
Visible(c, k) == DocumentOf[ParentOf[k]] \notin barred[c]
RankedIsVisible ==
    \A c \in Call :
        /\ pc[c] \in {"searched", "read"} => \A k \in hits[c] : Visible(c, k)
        /\ pc[c] \in {"ranked", "expanded"} \/ Retrieved(c) =>
             \A n \in DOMAIN ranked[c] : Visible(c, ranked[c][n])

\* Until it is logged, what was retrieved is the context of what was ranked and found.
Assembled ==
    \A c \in Call : Retrieved(c) =>
        LET context == AssembleContext(Expand(ranked[c]), found[c])
        IN  /\ context.chunks # <<>>
            /\ result[c] = [status |-> "retrieved", references |-> context.chunks,
                            tokens |-> context.tokens, truncated |-> context.truncated]

Found == TypeOK /\ RankedOnce /\ RankedIsVisible /\ Assembled

Kept == RowsAreComplete /\ CallsGoOn /\ KeyIsHeld /\ RowIsOwn /\ ResponsesAgreeWithLog
===============================================================================
