------------------------------- MODULE Backfill -------------------------------
(***************************************************************************)
(* Filling the vector column of rag_chunks: EmbeddingBackfillService, its  *)
(* batches, each in a transaction of its own, and what overlaps with them: *)
(* other runs, and the transactions that supersede or delete a document.   *)
(*                                                                         *)
(* A batch reads its chunks without a lock, waits for the provider, locks  *)
(* the rows one after the other in the order the database scans them, looks*)
(* at their status again and commits.  The chunks of a document change     *)
(* status together (module Ingest), so the status is kept per document.    *)
(***************************************************************************)
EXTENDS Naturals, FiniteSets

CONSTANTS
    Run,        \* calls of EmbeddingBackfillService.backfill
    Retirer,    \* transactions that supersede or delete a document
    Document,
    Chunk,
    DocumentOf, \* the document of each chunk
    Limit,      \* the values of BackfillRequest.limit
    UploadLimit,\* Settings.ingest_backfill_limit
    BatchSize,  \* Settings.embedding_batch_size
    None        \* no run, no chunk, no document

Call == Run \cup Retirer

ASSUME CallsDisjoint == Run \cap Retirer = {}
ASSUME ChunksBelong ==
    /\ DocumentOf \in [Chunk -> Document]
    /\ IsFiniteSet(Chunk)
    /\ \A d \in Document : \E c \in Chunk : DocumentOf[c] = d
ASSUME SizesPositive == Limit \cup {UploadLimit, BatchSize} \subseteq Nat \ {0}
ASSUME NoneIsNoValue == None \notin Call \cup Chunk \cup Document

VARIABLES
    status,     \* status of each document and its chunks
    embedded,   \* the chunks whose vector column is not NULL
    pc,
    request,    \* BackfillRequest of each run
    batch,      \* the chunks a run has read
    count,      \* attempted, succeeded and failed of each run
    held,       \* chunk rows each transaction has locked
    todo,       \* chunk rows its statement has yet to lock
    next,       \* the one it locks next
    target,     \* the document a retirer retires ...
    replacement,\* ... and the new version its transaction stores, None if it deletes
    wrote, seen \* history: the chunks a run has written, those active when it began

table == <<status, embedded>>
progress == <<request, batch, count>>
locks == <<held, todo, next>>
retirement == <<target, replacement>>
history == <<wrote, seen>>
vars == <<pc, table, progress, locks, retirement, history>>

Status == {"absent", "active", "superseded", "deleted"}
Over == {"done", "skipped", "raised", "gone"}
InBatch == {"embedding", "locking", "locked", "checked"}
Location == {"idle", "looping"} \cup InBatch \cup Over

\* chunk_ids = None is the empty set (backfill treats an empty list apart, but
\* no caller sends one).
Request == [ids : SUBSET Chunk, force : BOOLEAN, limit : Nat]
Count == [attempted : Nat, succeeded : Nat, failed : Nat]

TypeOK ==
    /\ status \in [Document -> Status]
    /\ embedded \subseteq Chunk
    /\ pc \in [Call -> Location]
    /\ request \in [Run -> Request]
    /\ batch \in [Run -> SUBSET Chunk]
    /\ count \in [Run -> Count]
    /\ held \in [Call -> SUBSET Chunk]
    /\ todo \in [Call -> SUBSET Chunk]
    /\ next \in [Call -> Chunk \cup {None}]
    /\ target \in [Retirer -> Document \cup {None}]
    /\ replacement \in [Retirer -> Document \cup {None}]
    /\ wrote \in [Run -> SUBSET Chunk]
    /\ seen \in [Run -> SUBSET Chunk]

ActiveChunks == {c \in Chunk : status[DocumentOf[c]] = "active"}
ChunksOf(d) == {c \in Chunk : DocumentOf[c] = d}

\* Some chunks have a vector from earlier runs.  restore_version copies those of
\* the version it restores: a document may have vectors when it is stored.
Init ==
    /\ status \in [Document -> {"absent", "active"}]
    /\ embedded \in SUBSET Chunk
    /\ pc = [c \in Call |-> "idle"]
    /\ request = [r \in Run |-> [ids |-> {}, force |-> FALSE, limit |-> 0]]
    /\ batch = [r \in Run |-> {}]
    /\ count = [r \in Run |-> [attempted |-> 0, succeeded |-> 0, failed |-> 0]]
    /\ held = [c \in Call |-> {}]
    /\ todo = [c \in Call |-> {}]
    /\ next = [c \in Call |-> None]
    /\ target = [x \in Retirer |-> None]
    /\ replacement = [x \in Retirer |-> None]
    /\ wrote = [r \in Run |-> {}]
    /\ seen = [r \in Run |-> {}]

Goto(c, from, to) == pc[c] = from /\ pc' = [pc EXCEPT ![c] = to]

-------------------------------------------------------------------------------
(* Row locks.                                                              *)

\* The statement of c starts: it will lock these rows, in some order.
Scan(c, rows) ==
    /\ todo' = [todo EXCEPT ![c] = rows]
    /\ \E k \in rows : next' = [next EXCEPT ![c] = k]
    /\ UNCHANGED held

\* The row is free: lock it and go on to another one.
LockRow(c) ==
    /\ pc[c] = "locking"
    /\ \A x \in Call \ {c} : next[c] \notin held[x]
    /\ held' = [held EXCEPT ![c] = @ \cup {next[c]}]
    /\ todo' = [todo EXCEPT ![c] = @ \ {next[c]}]
    /\ \/ /\ todo'[c] = {}
          /\ next' = [next EXCEPT ![c] = None]
          /\ pc' = [pc EXCEPT ![c] = "locked"]
       \/ /\ \E k \in todo'[c] : next' = [next EXCEPT ![c] = k]
          /\ UNCHANGED pc
    /\ UNCHANGED <<table, progress, retirement, history>>

Release(c) ==
    /\ held' = [held EXCEPT ![c] = {}]
    /\ todo' = [todo EXCEPT ![c] = {}]
    /\ next' = [next EXCEPT ![c] = None]

\* c is on a cycle of transactions that wait for each other: every member waits
\* for a row of a member, and has a member waiting for one of its own.
Deadlocked(c) ==
    \E cycle \in SUBSET Call :
        /\ c \in cycle
        /\ \A x \in cycle :
              /\ \E y \in cycle \ {x} : next[x] \in held[y]
              /\ \E y \in cycle \ {x} : next[y] \in held[x]

-------------------------------------------------------------------------------
(* backfill                                                                *)

StartRun(r, force, limit) ==
    /\ Goto(r, "idle", "looping")
    /\ request' = [request EXCEPT ![r] = [ids |-> {}, force |-> force, limit |-> limit]]
    /\ seen' = [seen EXCEPT ![r] = ActiveChunks]
    /\ UNCHANGED <<table, batch, count, locks, retirement, wrote>>

\* n of the rows, or all of them if there are fewer.
Take(n, rows) ==
    {some \in SUBSET rows :
        \/ Cardinality(some) = n
        \/ (some = rows /\ Cardinality(some) < n)}

\* _maybe_backfill, after an upload: the active chunks of its document, read in
\* a session of their own (the first UploadLimit by index, here any of them).
StartUploadRun(r, d) ==
    /\ pc[r] = "idle"
    /\ status[d] # "absent"
    /\ \E ids \in Take(UploadLimit, ChunksOf(d) \cap ActiveChunks) :
          /\ pc' = [pc EXCEPT ![r] = IF ids = {} THEN "skipped" ELSE "looping"]
          /\ request' = [request EXCEPT ![r] =
                           [ids |-> ids, force |-> FALSE, limit |-> Cardinality(ids)]]
    /\ seen' = [seen EXCEPT ![r] = ActiveChunks]
    /\ UNCHANGED <<table, batch, count, locks, retirement, wrote>>

\* Mutant: no list of ids is taken for an empty list.
EligibleOfList(r) ==
    {c \in ActiveChunks :
        /\ request[r].force \/ c \notin embedded
        /\ c \in request[r].ids}

\* Mutant: chunks that have a vector are listed again.
EligibleAgain(r) ==
    {c \in ActiveChunks : request[r].ids = {} \/ c \in request[r].ids}

\* list_for_embedding_backfill
Eligible(r) ==
    {c \in ActiveChunks :
        /\ request[r].force \/ c \notin embedded
        /\ request[r].ids = {} \/ c \in request[r].ids}

\* min(batch_size, request.limit - attempted)
BatchLimit(r) ==
    IF BatchSize < request[r].limit - count[r].attempted
    THEN BatchSize ELSE request[r].limit - count[r].attempted

\* The list has a LIMIT and no ORDER BY: any rows, as many as it allows.
ReadBatch(r) ==
    /\ Goto(r, "looping", "embedding")
    /\ count[r].attempted < request[r].limit
    /\ Eligible(r) # {}
    /\ \E rows \in Take(BatchLimit(r), Eligible(r)) : batch' = [batch EXCEPT ![r] = rows]
    /\ UNCHANGED <<table, request, count, locks, retirement, history>>

\* The limit is reached, or nothing is left to embed.
NoMoreBatches(r) ==
    /\ Goto(r, "looping", "done")
    /\ count[r].attempted >= request[r].limit \/ Eligible(r) = {}
    /\ UNCHANGED <<table, progress, locks, retirement, history>>

\* The list cannot be read: the exception leaves backfill.
ReadRaises(r) ==
    /\ Goto(r, "looping", "raised")
    /\ UNCHANGED <<table, progress, locks, retirement, history>>

\* The provider answers; upsert_chunks selects the rows FOR UPDATE.
EmbedReturns(r) ==
    /\ Goto(r, "embedding", "locking")
    /\ Scan(r, batch[r])
    /\ UNCHANGED <<table, progress, retirement, history>>

\* Mutant: the status of the locked rows is not looked at.
WritableAsRead(r) == TRUE

\* upsert_chunks: no row has become inactive since the batch was read.
Writable(r) == batch[r] \subseteq ActiveChunks

CheckBatch(r) ==
    /\ Goto(r, "locked", "checked")
    /\ Writable(r)
    /\ UNCHANGED <<table, progress, locks, retirement, history>>

CountBatch(r, succeeded, failed) ==
    count' = [count EXCEPT ![r] = [attempted |-> @.attempted + succeeded + failed,
                                   succeeded |-> @.succeeded + succeeded,
                                   failed    |-> @.failed + failed]]

\* Mutant: the failed batch stays in its transaction.
BatchFailsHolding(r) ==
    /\ pc' = [pc EXCEPT ![r] = "done"]
    /\ CountBatch(r, 0, Cardinality(batch[r]))
    /\ batch' = [batch EXCEPT ![r] = {}]
    /\ next' = [next EXCEPT ![r] = None]
    /\ UNCHANGED <<table, request, held, todo, retirement, history>>

\* _BatchFailure: the batch is rolled back and counted as failed, the run ends.
BatchFails(r) ==
    /\ pc' = [pc EXCEPT ![r] = "done"]
    /\ CountBatch(r, 0, Cardinality(batch[r]))
    /\ batch' = [batch EXCEPT ![r] = {}]
    /\ Release(r)
    /\ UNCHANGED <<table, request, retirement, history>>

\* VectorUpsertConflict: one inactive row fails the whole batch.
Conflict(r) ==
    /\ pc[r] = "locked"
    /\ ~Writable(r)
    /\ BatchFails(r)

\* The provider fails or returns vectors of a wrong shape, or a statement fails.
BatchRaises(r) ==
    /\ pc[r] \in InBatch
    /\ BatchFails(r)

\* The vectors of the batch, as the commit makes them visible.
WriteVectors(r) ==
    /\ embedded' = embedded \cup batch[r]
    /\ wrote' = [wrote EXCEPT ![r] = @ \cup batch[r]]

\* single_pass, or the list returned fewer rows than asked for.
LastBatch(r) ==
    \/ request[r].force \/ request[r].ids # {}
    \/ Cardinality(batch[r]) < BatchLimit(r)

CommitBatch(r) ==
    /\ pc[r] = "checked"
    /\ pc' = [pc EXCEPT ![r] = IF LastBatch(r) THEN "done" ELSE "looping"]
    /\ CountBatch(r, Cardinality(batch[r]), 0)
    /\ WriteVectors(r)
    /\ batch' = [batch EXCEPT ![r] = {}]
    /\ Release(r)
    /\ UNCHANGED <<status, request, retirement, seen>>

\* The commit fails, or takes effect and its acknowledgement is lost: it is
\* outside the try block, so the exception leaves backfill.
CommitRaises(r) ==
    /\ Goto(r, "checked", "raised")
    /\ WriteVectors(r) \/ UNCHANGED <<embedded, wrote>>
    /\ batch' = [batch EXCEPT ![r] = {}]
    /\ Release(r)
    /\ UNCHANGED <<status, request, count, retirement, seen>>

-------------------------------------------------------------------------------
(* The transactions that retire a document.                                *)

\* A document is stored by a source that has none yet.
Publish(d) ==
    /\ status[d] = "absent"
    /\ \A x \in Retirer : pc[x] \notin Over => replacement[x] # d
    /\ status' = [status EXCEPT ![d] = "active"]
    /\ UNCHANGED <<embedded, pc, progress, locks, retirement, history>>

\* supersede_source or delete_document_tree has updated the row of document d,
\* which no other transaction has locked, and updates its chunks.
RetireBegins(x, d, e) ==
    /\ Goto(x, "idle", "locking")
    /\ status[d] = "active"
    /\ e # None => status[e] = "absent"
    /\ \A y \in Retirer : pc[y] \notin {"idle"} \cup Over =>
          target[y] # d /\ (e # None => replacement[y] # e)
    /\ target' = [target EXCEPT ![x] = d]
    /\ replacement' = [replacement EXCEPT ![x] = e]
    /\ Scan(x, ChunksOf(d))
    /\ UNCHANGED <<table, progress, history>>

\* Mutant: a status that the table does not know.
RetiredAs(d, x) == IF replacement[x] = None THEN "removed" ELSE "superseded"

Retired(d, x) == IF replacement[x] = None THEN "deleted" ELSE "superseded"

RetireCommits(x) ==
    /\ Goto(x, "locked", "done")
    /\ status' = [d \in Document |->
                    IF d = target[x] THEN Retired(d, x)
                    ELSE IF d = replacement[x] THEN "active" ELSE status[d]]
    /\ Release(x)
    /\ UNCHANGED <<embedded, progress, retirement, history>>

RetireRaises(x) ==
    /\ pc[x] \in {"locking", "locked"}
    /\ pc' = [pc EXCEPT ![x] = "raised"]
    /\ Release(x)
    /\ UNCHANGED <<table, progress, retirement, history>>

-------------------------------------------------------------------------------
\* The database aborts one of the transactions that wait for each other.
BreakDeadlock(c) ==
    /\ Deadlocked(c)
    /\ \/ c \in Run /\ BatchFails(c)
       \/ c \in Retirer /\ RetireRaises(c)

\* The process dies or the task is cancelled.
Abandon(c) ==
    /\ pc[c] \notin Over \cup {"idle"}
    /\ pc' = [pc EXCEPT ![c] = "gone"]
    /\ Release(c)
    /\ UNCHANGED <<table, progress, retirement, history>>

AllOver ==
    /\ \A c \in Call : pc[c] \in Over \cup {"idle"}
    /\ UNCHANGED vars

RunStep(r) ==
    \/ ReadBatch(r) \/ NoMoreBatches(r) \/ EmbedReturns(r) \/ LockRow(r)
    \/ CheckBatch(r) \/ Conflict(r) \/ CommitBatch(r)

RetireStep(x) == LockRow(x) \/ RetireCommits(x)

Fault ==
    \/ \E r \in Run : ReadRaises(r) \/ BatchRaises(r) \/ CommitRaises(r)
    \/ \E x \in Retirer : RetireRaises(x)
    \/ \E c \in Call : Abandon(c)

Next ==
    \/ \E r \in Run, force \in BOOLEAN, limit \in Limit : StartRun(r, force, limit)
    \/ \E r \in Run, d \in Document : StartUploadRun(r, d)
    \/ \E r \in Run : RunStep(r)
    \/ \E d \in Document : Publish(d)
    \/ \E x \in Retirer, d \in Document, e \in Document \cup {None} : RetireBegins(x, d, e)
    \/ \E x \in Retirer : RetireStep(x)
    \/ \E c \in Call : BreakDeadlock(c)
    \/ Fault
    \/ AllOver

Spec == Init /\ [][Next]_vars

\* A call that has started keeps running, and the database looks for deadlocks
\* (deadlock_timeout).  No fault has to happen.
Fairness ==
    /\ \A r \in Run : WF_vars(RunStep(r))
    /\ \A x \in Retirer : WF_vars(RetireStep(x))
    /\ \A c \in Call : WF_vars(BreakDeadlock(c))

FairSpec == Spec /\ Fairness
===============================================================================
