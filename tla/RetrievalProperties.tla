-------------------------- MODULE RetrievalProperties --------------------------
(***************************************************************************)
(* What a question's response, its references and its query log promise.   *)
(***************************************************************************)
EXTENDS Retrieval

Own(c) == log[id[c]].by = c

\* A caller is never told something that the query log does not say: each response
\* but an error has a row of that very call under its trace id, with the same
\* references; success is logged as success, and a retrieval that found nothing or
\* failed as refused or failed.  Only an answer that was not given keeps the row
\* of the retrieval it had.  Between the commit of its retrieval and the update of
\* its answer a call relies on a row that it does not hold: it is still there, its
\* own and still retrieved.
ResponsesAgreeWithLog ==
    \A c \in Call :
        /\ response[c] \in Response \ {"none", "error"} =>
             LET row == log[id[c]]
                 kept == result[c].status = "retrieved" /\ row.status = "retrieved"
             IN  /\ Own(c)
                 /\ row.references = result[c].references
                 /\ CASE response[c] = "unavailable" -> row.status = "failed" \/ kept
                      [] response[c] = "refused" -> row.status = "refused" \/ kept
                      [] OTHER -> row.status = response[c]
        /\ pc[c] = "generated" => Own(c) /\ log[id[c]].status = "retrieved"

Retrieved(c) == pc[c] = "finished" /\ result[c].status = "retrieved"

\* The references that the answer can cite are one for each parent, at most
\* FinalTopK, and a chunk stands for its parent only if no other chunk of that
\* parent was ranked before it; they keep the order of the ranking.  None is to a
\* document that was retired (superseded or deleted) before the text of the chunks
\* was read, also when the search had found it, or that the caller could not see
\* when the search ran (M4-design.md:1093).
ReferencesAreSound ==
    \A c \in Call : Retrieved(c) =>
        LET refs == result[c].references
            Position(k) == CHOOSE n \in DOMAIN ranked[c] : ranked[c][n] = k
        IN  /\ Len(refs) \in 1..FinalTopK
            /\ \A i \in DOMAIN refs : \A n \in 1..(Position(refs[i]) - 1) :
                 ParentOf[ranked[c][n]] # ParentOf[refs[i]]
            /\ \A i, j \in DOMAIN refs : i < j => Position(refs[i]) < Position(refs[j])
            /\ \A i \in DOMAIN refs : DocumentOf[ParentOf[refs[i]]] \notin barred[c]

\* The count of tokens that is reported with a context keeps to the budget and is
\* never more than what is sent; nothing is left out that would still have fitted;
\* and it is reported as truncated exactly when something was left out or counted
\* for less than what is sent.  What is sent may be above the budget
\* (M4-design.md:1110 says that it may not).
ContextIsAccounted ==
    \A c \in Call : Retrieved(c) =>
        LET refs == result[c].references
            sent == SentTokens(refs, found[c])
            left == ToSet(Expand(ranked[c])) \ ToSet(refs)
        IN  /\ result[c].tokens <= Budget /\ result[c].tokens <= sent
            /\ \A k \in left : result[c].tokens + ChunkTokens[k] > Budget
            /\ result[c].truncated <=> left # {} \/ result[c].tokens < sent

\* The query log is a record: a row is never taken over by another call, and
\* changes at most once, from retrieved to success, in the step that tells its own
\* caller so.
LogIsFinal ==
    [][\A i \in RequestId : log[i] # NoRow /\ log'[i] # log[i] =>
         /\ log[i].status = "retrieved"
         /\ log'[i] = [log[i] EXCEPT !.status = "success"]
         /\ response[log[i].by] = "none" /\ response'[log[i].by] = "success"]_vars

\* Every request ends, also one whose request id another transaction is about to
\* log: it waits for that transaction and goes on or fails.
EveryCallEnds == \A c \in Call : pc[c] # "idle" ~> pc[c] = "done"
===============================================================================
