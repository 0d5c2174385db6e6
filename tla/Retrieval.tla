------------------------------ MODULE Retrieval -------------------------------
(***************************************************************************)
(* Questions: KnowledgeService.retrieve, context and answer, the           *)
(* RetrievalService behind them, and rag_query_logs.                       *)
(*                                                                         *)
(* One transaction covers a retrieval from the search to its query log,    *)
(* but each of its statements sees what is committed when it runs, and the *)
(* calls of the embedding and reranker providers lie between them.         *)
(* Documents come, go and are relabelled meanwhile (module Ingest and      *)
(* GovernanceService.update_document).  The answer is generated after the  *)
(* commit and written to the log in a transaction of its own.              *)
(***************************************************************************)
EXTENDS Scope, Evidence

CONSTANTS
    Call,       \* requests to retrieve, context or answer
    RequestId,  \* X-Request-Id or the jti of the token: calls may share it
    Requests,   \* what each call may ask with: who asks, the keys of its filters, its bases
    Labels,     \* the labels that each document gets; the first one is its own at first
    Stored,     \* the documents that are active at first
    TopK,       \* Settings.default_top_k or the request's top_k
    FinalTopK,  \* Settings.final_top_k or the request's final_top_k
    MaxRetries, \* Settings.embedding_max_retries and reranker_max_retries
    Repairs,    \* Settings.answer_repair_invalid_citations
    None        \* no request id, no request, no call

Request == [asker : Asker, keys : SUBSET (FilterKeys \cup IdentityKeys), bases : SUBSET Base]

ASSUME CallsAsk == \A c \in Call : Requests[c] \subseteq Request
ASSUME DocumentsAreLabelled ==
    /\ Labels \in [Document -> Seq(Label) \ {<<>>}]
    /\ Stored \subseteq Document
ASSUME RepairsOrNot == Repairs \in BOOLEAN
ASSUME SizesPositive == TopK \in Nat \ {0} /\ FinalTopK \in Nat \ {0} /\ MaxRetries \in Nat
ASSUME NoneIsNothing == None \notin RequestId \cup Request \cup Call

VARIABLES
    status,     \* status of each document, its parents and its chunks
    label,      \* department, access level and base of each document and its chunks
    log,        \* the row of each request id in rag_query_logs
    pc,
    id,         \* RequestContext.request_id of each call
    request,    \* what it asks with
    retries,    \* requests to the provider that were sent again
    hits,       \* chunks the search found, then those whose text could be read, until
                \* they are ranked
    ranked,     \* RankedCandidates, best first
    found,      \* parents whose text could be read
    result,     \* RetrievalResult
    response,   \* what the caller gets
    barred      \* history: documents out of the scope when the call searched, or retired
                \* before it read the text of the chunks

documents == <<status, label>>
ask == <<id, request>>
search == <<retries, hits, ranked, found, barred>>
vars == <<documents, log, pc, ask, search, result, response>>

Location == {"idle", "asked", "searched", "read", "ranked", "expanded", "finished", "logged",
             "committed", "generated", "done"}
Result == [status : {"none", "refused", "failed", "retrieved"}, references : Seq(Chunk),
           tokens : Nat, truncated : BOOLEAN]
Row == [status : {"refused", "failed", "retrieved", "success"},
        references : Seq(Chunk), by : Call]
NoRow == [status |-> "none", references |-> <<>>, by |-> None]
Response == {"none", "retrieved", "refused", "success", "unavailable", "error"}

\* A result without a context.
Without(s) == [status |-> s, references |-> <<>>, tokens |-> 0, truncated |-> FALSE]

TypeOK ==
    /\ status \in [Document -> {"absent", "active", "retired"}]
    /\ label \in [Document -> Label]
    /\ \A i \in RequestId : log[i] \in Row \cup {NoRow}
    /\ request \in [Call -> Request \cup {None}]
    /\ found \in [Call -> SUBSET Parent]
    /\ pc \in [Call -> Location]
    /\ id \in [Call -> RequestId \cup {None}]
    /\ retries \in [Call -> 0..MaxRetries]
    /\ hits \in [Call -> SUBSET Chunk]
    /\ ranked \in [Call -> Seq(Chunk)]
    /\ result \in [Call -> Result]
    /\ response \in [Call -> Response]
    /\ barred \in [Call -> SUBSET Document]

Init ==
    /\ status = [d \in Document |-> IF d \in Stored THEN "active" ELSE "absent"]
    /\ label = [d \in Document |-> Head(Labels[d])]
    /\ log = [i \in RequestId |-> NoRow]
    /\ request = [c \in Call |-> None]
    /\ found = [c \in Call |-> {}]
    /\ pc = [c \in Call |-> "idle"]
    /\ id = [c \in Call |-> None]
    /\ retries = [c \in Call |-> 0]
    /\ hits = [c \in Call |-> {}]
    /\ ranked = [c \in Call |-> <<>>]
    /\ result = [c \in Call |-> Without("none")]
    /\ response = [c \in Call |-> "none"]
    /\ barred = [c \in Call |-> {}]

-----------------------------------------------------------------------------

ChunksOf(visible) == {k \in Chunk : DocumentOf[ParentOf[k]] \in visible}
Active == {d \in Document : status[d] = "active"}
InScope(c) ==
    {d \in Document : Matches(Filter(request[c].asker, request[c].bases), label[d])}

Moves(c, from, to) == pc[c] = from /\ pc' = [pc EXCEPT ![c] = to]
Finishes(c, r) == result' = [result EXCEPT ![c] = r]
\* The call leaves RetrievalService.retrieve: what it knew there is gone.
Leaves(c) ==
    /\ retries' = [retries EXCEPT ![c] = 0]
    /\ hits' = [hits EXCEPT ![c] = {}]
    /\ ranked' = [ranked EXCEPT ![c] = <<>>]
    /\ found' = [found EXCEPT ![c] = {}]
    /\ barred' = [barred EXCEPT ![c] = {}]

\* It raises: there is no result either.
Raises(c) ==
    /\ response' = [response EXCEPT ![c] = "error"]
    /\ result' = [result EXCEPT ![c] = Without("none")]
    /\ Leaves(c)

Responds(c, r) == response' = [response EXCEPT ![c] = r]

(* Documents are published and retired by the transactions of Ingest. *)

Publish(d) ==
    /\ status[d] = "absent"
    /\ status' = [status EXCEPT ![d] = "active"]
    /\ UNCHANGED <<label, log, pc, ask, search, result, response>>

Retire(d) ==
    /\ status[d] = "active"
    /\ status' = [status EXCEPT ![d] = "retired"]
    /\ UNCHANGED <<label, log, pc, ask, search, result, response>>

\* update_document writes the label of the document, of its parents and of its chunks.
Relabel(d, l) ==
    /\ status[d] = "active" /\ label[d] # l
    /\ label' = [label EXCEPT ![d] = l]
    /\ UNCHANGED <<status, log, pc, ask, search, result, response>>

-----------------------------------------------------------------------------
(* RetrievalService.retrieve *)

Begin(c) ==
    /\ Moves(c, "idle", "asked")
    /\ \E i \in RequestId : id' = [id EXCEPT ![c] = i]
    /\ \E r \in Requests[c] : request' = [request EXCEPT ![c] = r]
    /\ UNCHANGED <<documents, log, search, result, response>>

\* The filters of the request name what only the server may say: nothing is logged.
RejectFilters(c) ==
    /\ Moves(c, "asked", "done")
    /\ ~AcceptsFilters(request[c].keys)
    /\ Raises(c)
    /\ UNCHANGED <<documents, log, ask>>

Accepted(c) == AcceptsFilters(request[c].keys)

\* The question is empty, without a letter or too short.
RejectQuestion(c) ==
    /\ Moves(c, "asked", "finished")
    /\ Accepted(c) /\ retries[c] = 0
    /\ Finishes(c, Without("refused"))
    /\ UNCHANGED <<documents, log, ask, search, response>>

\* The provider of the embedding, or of the reranker, is overloaded or cannot be
\* reached: the request is sent again, after a while.
Retry(c) ==
    /\ \/ pc[c] = "asked" /\ Accepted(c)
       \/ pc[c] = "read" /\ hits[c] # {}
    /\ retries[c] < MaxRetries
    /\ retries' = [retries EXCEPT ![c] = @ + 1]
    /\ UNCHANGED <<documents, log, pc, ask, hits, ranked, found, barred, result, response>>

\* The provider fails or, before it asks the database, the vector store does.
EmbeddingFails(c) ==
    /\ Moves(c, "asked", "finished")
    /\ Accepted(c)
    /\ Finishes(c, Without("failed"))
    /\ UNCHANGED <<documents, log, ask, search, response>>

\* The embedding of the question takes its time before the search: TopK of the active
\* chunks in its scope that have a vector.
Search(c) ==
    /\ Moves(c, "asked", "searched")
    /\ Accepted(c)
    /\ \E near \in SUBSET ChunksOf(Active \cap InScope(c)) :
         Cardinality(near) <= TopK /\ hits' = [hits EXCEPT ![c] = near]
    /\ barred' = [barred EXCEPT ![c] = Document \ InScope(c)]
    /\ retries' = [retries EXCEPT ![c] = 0]
    /\ UNCHANGED <<documents, log, ask, ranked, found, result, response>>

RetiredIsBarred(c) ==
    barred' = [barred EXCEPT ![c] = @ \cup {d \in Document : status[d] = "retired"}]

\* Mutation: the rows are read whatever their status.
ReadChunksOfAnyStatus(c) ==
    /\ Moves(c, "searched", "read")
    /\ RetiredIsBarred(c)
    /\ UNCHANGED <<documents, log, ask, retries, hits, ranked, found, result, response>>

\* Their status is looked at again; their labels are not.
ReadChunks(c) ==
    /\ Moves(c, "searched", "read")
    /\ hits' = [hits EXCEPT ![c] = @ \cap ChunksOf(Active)]
    /\ RetiredIsBarred(c)
    /\ UNCHANGED <<documents, log, ask, retries, ranked, found, result, response>>

\* At most FinalTopK hits in the order of the reranker's scores or, if it fails, of
\* the vector scores.
Orders(S) == {s \in [1..Cardinality(S) -> S] : IsInjective(s)}

Rank(c) ==
    /\ Moves(c, "read", "ranked")
    /\ \E best \in SUBSET hits[c] :
         /\ best # {} /\ Cardinality(best) <= FinalTopK
         /\ \E order \in Orders(best) : ranked' = [ranked EXCEPT ![c] = order]
    /\ hits' = [hits EXCEPT ![c] = {}]
    /\ retries' = [retries EXCEPT ![c] = 0]
    /\ UNCHANGED <<documents, log, ask, found, barred, result, response>>

\* RefusalJudge.judge: no candidates, or the best one is below the threshold.
Refuse(c) ==
    /\ Moves(c, "read", "finished")
    /\ Finishes(c, Without("refused"))
    /\ UNCHANGED <<documents, log, ask, search, response>>

\* ParentExpander.expand: a chunk goes on without its parent if that is not active any more.
ReadParents(c) ==
    /\ Moves(c, "ranked", "expanded")
    /\ found' = [found EXCEPT ![c] =
           {p \in Parent : DocumentOf[p] \in Active} \cap {ParentOf[k] : k \in ToSet(ranked[c])}]
    /\ UNCHANGED <<documents, log, ask, retries, hits, ranked, barred, result, response>>

Assemble(c) ==
    /\ Moves(c, "expanded", "finished")
    /\ LET context == AssembleContext(Expand(ranked[c]), found[c])
       IN  Finishes(c, IF context.chunks = <<>> THEN Without("refused")
                       ELSE [status |-> "retrieved", references |-> context.chunks,
                             tokens |-> context.tokens, truncated |-> context.truncated])
    /\ UNCHANGED <<documents, log, ask, search, response>>

-----------------------------------------------------------------------------
(* The query log.  Its key is the request id, for all tenants and users. *)

\* Mutation: the session of a call that has ended is not given back.
KeyFreeLeaking(c) ==
    \A x \in Call \ {c} : ~(pc[x] \in {"logged", "done"} /\ id[x] = id[c])

KeyFree(c) == \A x \in Call \ {c} : ~(pc[x] = "logged" /\ id[x] = id[c])

\* Mutation: the id is indexed, but not unique.
WriteLogAnyway(c) ==
    /\ Moves(c, "finished", "logged")
    /\ Leaves(c)
    /\ UNCHANGED <<documents, log, ask, result, response>>

WriteLog(c) ==
    /\ Moves(c, "finished", "logged")
    /\ KeyFree(c) /\ log[id[c]] = NoRow
    /\ Leaves(c)
    /\ UNCHANGED <<documents, log, ask, result, response>>

CommitLog(c) ==
    /\ Moves(c, "logged", "committed")
    /\ log' = [log EXCEPT ![id[c]] = [status |-> result[c].status,
                                      references |-> result[c].references, by |-> c]]
    /\ UNCHANGED <<documents, ask, search, result, response>>

\* The id is in the log already: the insert fails, and so does the one that the
\* exception handler tries in the aborted transaction.
LogConflicts(c) ==
    /\ Moves(c, "finished", "done")
    /\ KeyFree(c) /\ log[id[c]] # NoRow
    /\ Raises(c)
    /\ UNCHANGED <<documents, log, ask>>

\* A statement or the commit fails, or the call is cancelled: after a failed
\* statement the handler cannot write its log.
Break(c) ==
    /\ pc[c] \in {"asked", "searched", "read", "ranked", "expanded", "finished", "logged"}
    /\ pc' = [pc EXCEPT ![c] = "done"]
    /\ Raises(c)
    /\ UNCHANGED <<documents, log, ask>>

-----------------------------------------------------------------------------
(* KnowledgeService *)

\* Mutation: a failed retrieval is not told apart.
RespondFailed(c) ==
    /\ Moves(c, "committed", "done")
    /\ Responds(c, result[c].status)
    /\ UNCHANGED <<documents, log, ask, search, result>>

\* What retrieve and context return, and answer unless something was retrieved.
Respond(c) ==
    /\ Moves(c, "committed", "done")
    /\ Responds(c, IF result[c].status = "failed" THEN "unavailable" ELSE result[c].status)
    /\ UNCHANGED <<documents, log, ask, search, result>>

\* What the generator may give for the references of the call.
Given(c) == Generated(Len(result[c].references), Repairs)
Usable(c, answer) ==
    ValidCitations(answer, Len(result[c].references)) /\ ~answer.refuses

\* The answer is disabled or its provider fails.
AnswerUnavailable(c) ==
    /\ Moves(c, "committed", "done")
    /\ result[c].status = "retrieved"
    /\ Responds(c, "unavailable")
    /\ UNCHANGED <<documents, log, ask, search, result>>

\* It refuses, or its citations were invented or missing.
AnswerRefused(c) ==
    /\ Moves(c, "committed", "done")
    /\ result[c].status = "retrieved"
    /\ \E answer \in Given(c) : ~Usable(c, answer)
    /\ Responds(c, "refused")
    /\ UNCHANGED <<documents, log, ask, search, result>>

Generate(c) ==
    /\ Moves(c, "committed", "generated")
    /\ result[c].status = "retrieved"
    /\ \E answer \in Given(c) : Usable(c, answer)
    /\ UNCHANGED <<documents, log, ask, search, result, response>>

\* Mutation: the answer is given without its transaction.
UpdateNothing(c) ==
    /\ Moves(c, "generated", "done")
    /\ Responds(c, "success")
    /\ UNCHANGED <<documents, log, ask, search, result>>

UpdateAnswer(c) ==
    /\ Moves(c, "generated", "done")
    /\ log[id[c]].status = "retrieved"
    /\ log' = [log EXCEPT ![id[c]].status = "success"]
    /\ Responds(c, "success")
    /\ UNCHANGED <<documents, ask, search, result>>

\* rowcount is 0, a statement fails or the call is cancelled.
UpdateRaises(c) ==
    /\ pc[c] \in {"committed", "generated"}
    /\ pc' = [pc EXCEPT ![c] = "done"]
    /\ Raises(c)
    /\ UNCHANGED <<documents, log, ask>>

-----------------------------------------------------------------------------

Proceed(c) ==
    \/ RejectFilters(c) \/ RejectQuestion(c) \/ EmbeddingFails(c) \/ Retry(c)
    \/ Search(c) \/ ReadChunks(c) \/ Rank(c) \/ Refuse(c) \/ ReadParents(c) \/ Assemble(c)
    \/ WriteLog(c) \/ CommitLog(c) \/ LogConflicts(c)
    \/ Respond(c) \/ AnswerUnavailable(c) \/ AnswerRefused(c) \/ Generate(c) \/ UpdateAnswer(c)

Next ==
    \/ \E c \in Call : Begin(c) \/ Proceed(c) \/ Break(c) \/ UpdateRaises(c)
    \/ \E d \in Document : Publish(d) \/ Retire(d)
    \/ \E d \in Document : \E l \in ToSet(Labels[d]) : Relabel(d, l)

\* A call that has begun goes on: providers answer or time out, statements end, and
\* the wait before a request is sent again is over some time.
Spec == Init /\ [][Next]_vars
FairSpec == Spec /\ \A c \in Call : WF_vars(Proceed(c))
===============================================================================
