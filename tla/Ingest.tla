-------------------------------- MODULE Ingest --------------------------------
(***************************************************************************)
(* Storing document versions: the calls of IngestService.ingest_document,  *)
(* of DocumentVersionRepository.restore_version and of the document        *)
(* deletion of the governance service, each running its own PostgreSQL     *)
(* transactions at READ COMMITTED.                                         *)
(*                                                                         *)
(* One tenant.  A source is a (knowledge base, source_uri) pair.  A call   *)
(* inserts at most one row of rag_documents, so the row is named by the    *)
(* call: source[w], hash[w] and version[w] are the values call w works     *)
(* with and, once status[w] is not "absent", the columns of its row, which *)
(* nothing updates afterwards.                                             *)
(*                                                                         *)
(* status and chunks hold what is committed.  A statement that changes     *)
(* rows is two steps: the scan picks the rows its snapshot shows (target), *)
(* then, once no other transaction holds any of them, it locks those that  *)
(* still satisfy its WHERE clause (held) - what PostgreSQL does at READ    *)
(* COMMITTED.  The changes become visible when the transaction commits.    *)
(***************************************************************************)
EXTENDS Naturals

CONSTANTS
    Job,       \* calls of ingest_document, named by their ingest job
    Restorer,  \* calls of restore_version
    Remover,   \* calls that delete a document
    Source,    \* (knowledge base, source_uri) pairs
    Hash,      \* content hashes
    None       \* no source, no document, no lock holder

ASSUME CallsDisjoint ==
    /\ Job \cap Restorer = {}
    /\ Job \cap Remover = {}
    /\ Restorer \cap Remover = {}

ASSUME NoneIsNoValue == None \notin Job \cup Restorer \cup Remover \cup Source \cup Hash

Document == Job \cup Restorer
Call == Document \cup Remover

VARIABLES
    pc,          \* where each call is
    job,         \* rag_ingest_jobs.status of each job, "absent" before it is created
    jobDocument, \* rag_ingest_jobs.document_id
    source, hash, version,
    status,      \* rag_documents.status of each document
    chunks,      \* the status its parent and child chunks share
    lockHolder,  \* holder of the transaction advisory lock of each source
    held,        \* rows of rag_documents each transaction has locked
    target,      \* rows the running statement of each transaction has picked
    duplicate    \* the document each job found to have its content

row == <<source, hash, version>>
table == <<status, chunks>>
locks == <<lockHolder, held, target>>
vars == <<pc, job, jobDocument, row, table, locks, duplicate>>

RowStatus == {"absent", "active", "superseded", "deleted"}
JobStatus == {"absent", "pending", "running", "success", "failed", "skipped_duplicate"}
Terminal == {"success", "failed", "skipped_duplicate"}

\* Inside the transaction that stores the document, from the advisory lock on.
Persisting ==
    {"dedupe", "skipping", "lock_scan", "lock_rows", "supersede_scan",
     "supersede_rows", "numbering", "inserting", "inserted"}
Over == {"done", "raised", "gone"}
Location == {"idle", "created", "parsing", "locking", "delete_rows", "deleting", "failing"}
                \cup Persisting \cup Over

TypeOK ==
    /\ pc \in [Call -> Location]
    /\ job \in [Job -> JobStatus]
    /\ jobDocument \in [Job -> Document \cup {None}]
    /\ source \in [Document -> Source \cup {None}]
    /\ hash \in [Document -> Hash \cup {None}]
    /\ version \in [Document -> Nat]
    /\ status \in [Document -> RowStatus]
    /\ chunks \in [Document -> RowStatus]
    /\ lockHolder \in [Source -> Job \cup {None}]
    /\ held \in [Call -> SUBSET Document]
    /\ target \in [Call -> SUBSET Document]
    /\ duplicate \in [Job -> Document \cup {None}]

Stored(s) == {d \in Document : status[d] # "absent" /\ source[d] = s}
Active(s) == {d \in Stored(s) : status[d] = "active"}

Init ==
    /\ pc = [c \in Call |-> "idle"]
    /\ job = [j \in Job |-> "absent"]
    /\ jobDocument = [j \in Job |-> None]
    /\ source = [d \in Document |-> None]
    /\ hash = [d \in Document |-> None]
    /\ version = [d \in Document |-> 0]
    /\ status = [d \in Document |-> "absent"]
    /\ chunks = [d \in Document |-> "absent"]
    /\ lockHolder = [s \in Source |-> None]
    /\ held = [c \in Call |-> {}]
    /\ target = [c \in Call |-> {}]
    /\ duplicate = [j \in Job |-> None]

-------------------------------------------------------------------------------
(* Steps shared by the transactions.                                       *)

Goto(c, from, to) == pc[c] = from /\ pc' = [pc EXCEPT ![c] = to]

\* Mutant: a session-level advisory lock outlives the transaction.
ReleaseRowsOnly(c) ==
    /\ held' = [held EXCEPT ![c] = {}]
    /\ target' = [target EXCEPT ![c] = {}]
    /\ UNCHANGED lockHolder

\* The end of a transaction, by commit or rollback, frees its locks.
Release(c) ==
    /\ held' = [held EXCEPT ![c] = {}]
    /\ target' = [target EXCEPT ![c] = {}]
    /\ lockHolder' = [s \in Source |-> IF lockHolder[s] = c THEN None ELSE lockHolder[s]]

\* No other transaction holds a row the statement of c has picked.
Unblocked(c) == \A x \in Call \ {c} : held[x] \cap target[c] = {}

\* The statement of c picks the active rows of its source.
PickActive(c) ==
    /\ target' = [target EXCEPT ![c] = Active(source[c])]
    /\ UNCHANGED <<job, jobDocument, row, table, lockHolder, held, duplicate>>

\* Mutant: the rows are not looked at again after the wait.
LockPickedUnchecked(c) ==
    /\ Unblocked(c)
    /\ held' = [held EXCEPT ![c] = @ \cup target[c]]
    /\ UNCHANGED <<job, jobDocument, row, table, lockHolder, target, duplicate>>

\* The statement locks the picked rows that are still active.
LockPicked(c) ==
    /\ Unblocked(c)
    /\ held' = [held EXCEPT ![c] = @ \cup {d \in target[c] : status[d] = "active"}]
    /\ UNCHANGED <<job, jobDocument, row, table, lockHolder, target, duplicate>>

\* An error inside a transaction rolls it back.
Rollback(c) ==
    /\ Release(c)
    /\ UNCHANGED <<jobDocument, row, table, duplicate>>

-------------------------------------------------------------------------------
(* ingest_document                                                         *)

\* The job row, in a transaction of its own.
CreateJob(j, s) ==
    /\ Goto(j, "idle", "created")
    /\ job' = [job EXCEPT ![j] = "pending"]
    /\ source' = [source EXCEPT ![j] = s]
    /\ UNCHANGED <<jobDocument, hash, version, table, locks, duplicate>>

MarkRunning(j) ==
    /\ Goto(j, "created", "parsing")
    /\ job[j] = "pending"
    /\ job' = [job EXCEPT ![j] = "running"]
    /\ UNCHANGED <<jobDocument, row, table, locks, duplicate>>

\* mark_running runs before the try block: its failure reaches the caller.
MarkRunningRaises(j) ==
    /\ Goto(j, "created", "raised")
    /\ UNCHANGED <<job, jobDocument, row, table, locks, duplicate>>

ParseReturns(j, h) ==
    /\ Goto(j, "parsing", "locking")
    /\ hash' = [hash EXCEPT ![j] = h]
    /\ UNCHANGED <<job, jobDocument, source, version, table, locks, duplicate>>

\* A parser error, the parse timeout, or too many child chunks.
ParseRaises(j) ==
    /\ Goto(j, "parsing", "failing")
    /\ UNCHANGED <<job, jobDocument, row, table, locks, duplicate>>

\* Mutant: the advisory lock is not waited for.
EnterUnlocked(j) ==
    /\ Goto(j, "locking", "dedupe")
    /\ lockHolder' = [lockHolder EXCEPT ![source[j]] = j]
    /\ UNCHANGED <<job, jobDocument, row, table, held, target, duplicate>>

AcquireLock(j) ==
    /\ Goto(j, "locking", "dedupe")
    /\ lockHolder[source[j]] = None
    /\ lockHolder' = [lockHolder EXCEPT ![source[j]] = j]
    /\ UNCHANGED <<job, jobDocument, row, table, held, target, duplicate>>

\* Mutant: superseded versions are not searched.
SameActiveContent(j) ==
    {d \in Stored(source[j]) : hash[d] = hash[j] /\ status[d] = "active"}

\* find_by_source_hash: the active and superseded rows with this content.
SameContent(j) ==
    {d \in Stored(source[j]) : hash[d] = hash[j] /\ status[d] \in {"active", "superseded"}}

\* The newest such row, read without a lock.
FindDuplicate(j) ==
    /\ Goto(j, "dedupe", "skipping")
    /\ \E d \in SameContent(j) :
          /\ \A e \in SameContent(j) : version[e] <= version[d]
          /\ duplicate' = [duplicate EXCEPT ![j] = d]
    /\ UNCHANGED <<job, jobDocument, row, table, locks>>

FindNoDuplicate(j) ==
    /\ Goto(j, "dedupe", "lock_scan")
    /\ SameContent(j) = {}
    /\ UNCHANGED <<job, jobDocument, row, table, locks, duplicate>>

\* mark_skipped_duplicate and commit.  next is "failing" when the commit takes
\* effect but its acknowledgement is lost.
CommitSkipped(j, next) ==
    /\ Goto(j, "skipping", next)
    /\ job[j] = "running"
    /\ job' = [job EXCEPT ![j] = "skipped_duplicate"]
    /\ jobDocument' = [jobDocument EXCEPT ![j] = duplicate[j]]
    /\ Release(j)
    /\ UNCHANGED <<row, table, duplicate>>

\* lock_active_by_source: SELECT ... FOR UPDATE.
LockScan(j) == Goto(j, "lock_scan", "lock_rows") /\ PickActive(j)
LockRows(j) == Goto(j, "lock_rows", "supersede_scan") /\ LockPicked(j)

\* Mutant: the chunks of the superseded version are left alone.
SupersedeDocumentOnly(w) ==
    /\ status' = [d \in Document |->
                    IF d = w THEN "active"
                    ELSE IF d \in held[w] THEN "superseded" ELSE status[d]]
    /\ chunks' = [chunks EXCEPT ![w] = "active"]

\* mark_success and commit: the superseded version and its chunks, the new
\* document, its chunks and the job change together.
Supersede(w) ==
    /\ status' = [d \in Document |->
                    IF d = w THEN "active"
                    ELSE IF d \in held[w] THEN "superseded" ELSE status[d]]
    /\ chunks' = [d \in Document |->
                    IF d = w THEN "active"
                    ELSE IF d \in held[w] /\ chunks[d] = "active" THEN "superseded"
                    ELSE chunks[d]]

CommitIngest(j, next) ==
    /\ Goto(j, "inserted", next)
    /\ job[j] = "running"
    /\ job' = [job EXCEPT ![j] = "success"]
    /\ jobDocument' = [jobDocument EXCEPT ![j] = j]
    /\ Supersede(j)
    /\ Release(j)
    /\ UNCHANGED <<row, duplicate>>

\* Any other error between the advisory lock and the commit.
PersistRaises(j) ==
    /\ pc[j] \in Persisting \cup {"locking"}
    /\ pc' = [pc EXCEPT ![j] = "failing"]
    /\ Rollback(j)
    /\ UNCHANGED job

\* Mutant: mark_failed writes a status the table has no value for.
MarkErrored(j) ==
    /\ Goto(j, "failing", "raised")
    /\ job' = [job EXCEPT ![j] = IF @ = "running" THEN "error" ELSE @]
    /\ UNCHANGED <<jobDocument, row, table, locks, duplicate>>

\* Mutant: mark_failed does not look at the status.
MarkAnyFailed(j) ==
    /\ Goto(j, "failing", "raised")
    /\ job' = [job EXCEPT ![j] = "failed"]
    /\ UNCHANGED <<jobDocument, row, table, locks, duplicate>>

\* mark_failed changes a running job only; on any other it raises, and the
\* caller of mark_failed logs that.
MarkFailed(j) ==
    /\ Goto(j, "failing", "raised")
    /\ job' = [job EXCEPT ![j] = IF @ = "running" THEN "failed" ELSE @]
    /\ UNCHANGED <<jobDocument, row, table, locks, duplicate>>

\* The transaction of mark_failed itself fails; the error is only logged.
MarkFailedIsLost(j) ==
    /\ Goto(j, "failing", "raised")
    /\ UNCHANGED <<job, jobDocument, row, table, locks, duplicate>>

-------------------------------------------------------------------------------
(* Numbering, superseding and inserting, of ingest_document and of         *)
(* restore_version, which runs the first two in the other order.           *)

\* Mutant: deleted versions do not count.
NextLiveVersion(w) ==
    LET live == {d \in Stored(source[w]) : status[d] # "deleted"} IN
    /\ Goto(w, "numbering", IF w \in Job THEN "inserting" ELSE "supersede_scan")
    /\ \E n \in {0} \cup {version[d] : d \in live} :
          /\ \A d \in live : version[d] <= n
          /\ version' = [version EXCEPT ![w] = n + 1]
    /\ UNCHANGED <<job, jobDocument, source, hash, table, locks, duplicate>>

NextVersion(w) ==
    /\ Goto(w, "numbering", IF w \in Job THEN "inserting" ELSE "supersede_scan")
    /\ \E n \in {0} \cup {version[d] : d \in Stored(source[w])} :
          /\ \A d \in Stored(source[w]) : version[d] <= n
          /\ version' = [version EXCEPT ![w] = n + 1]
    /\ UNCHANGED <<job, jobDocument, source, hash, table, locks, duplicate>>

SupersedeScan(w) == Goto(w, "supersede_scan", "supersede_rows") /\ PickActive(w)

\* Mutant: the supersede statement commits on its own.
SupersedeRowsCommitted(w) ==
    /\ Goto(w, "supersede_rows", IF w \in Job THEN "numbering" ELSE "inserting")
    /\ Unblocked(w)
    /\ status' = [d \in Document |->
                    IF d \in target[w] /\ status[d] = "active" THEN "superseded" ELSE status[d]]
    /\ chunks' = status'
    /\ UNCHANGED <<job, jobDocument, row, locks, duplicate>>

SupersedeRows(w) ==
    /\ Goto(w, "supersede_rows", IF w \in Job THEN "numbering" ELSE "inserting")
    /\ LockPicked(w)

\* An insert of the same source in flight makes the unique indexes wait.
InsertInFlight(w) ==
    \E x \in Document \ {w} : pc[x] = "inserted" /\ source[x] = source[w]

\* Mutant: the unique index of the versions is missing.
ViolatesActive(w, d) == status[d] = "active" /\ d \notin held[w]

\* uq_rag_documents_source_version and uq_rag_documents_active_source.
Violates(w, d) ==
    \/ version[d] = version[w]
    \/ status[d] = "active" /\ d \notin held[w]

\* The new row and its chunks, still invisible to others.
InsertRow(w) ==
    /\ Goto(w, "inserting", "inserted")
    /\ ~InsertInFlight(w)
    /\ \A d \in Stored(source[w]) : ~Violates(w, d)
    /\ UNCHANGED <<job, jobDocument, row, table, locks, duplicate>>

InsertViolates(w) ==
    /\ Goto(w, "inserting", IF w \in Job THEN "failing" ELSE "raised")
    /\ ~InsertInFlight(w)
    /\ \E d \in Stored(source[w]) : Violates(w, d)
    /\ Rollback(w)
    /\ UNCHANGED job

-------------------------------------------------------------------------------
(* restore_version                                                         *)

\* The document to clone may have any status.
RestoreBegins(r, d) ==
    /\ Goto(r, "idle", "numbering")
    /\ status[d] # "absent"
    /\ source' = [source EXCEPT ![r] = source[d]]
    /\ hash' = [hash EXCEPT ![r] = hash[d]]
    /\ UNCHANGED <<job, jobDocument, version, table, locks, duplicate>>

CommitRestore(r) ==
    /\ Goto(r, "inserted", "done")
    /\ Supersede(r)
    /\ Release(r)
    /\ UNCHANGED <<job, jobDocument, row, duplicate>>

RestoreRaises(r) ==
    /\ pc[r] \in Persisting
    /\ pc' = [pc EXCEPT ![r] = "raised"]
    /\ Rollback(r)
    /\ UNCHANGED job

-------------------------------------------------------------------------------
(* delete_document                                                         *)

\* The service reads the document, which must be active ...
DeleteBegins(x, d) ==
    /\ Goto(x, "idle", "delete_rows")
    /\ status[d] = "active"
    /\ target' = [target EXCEPT ![x] = {d}]
    /\ UNCHANGED <<job, jobDocument, row, table, lockHolder, held, duplicate>>

\* ... and delete_document_tree updates it unless it is deleted by now.
DeleteRows(x) ==
    /\ Goto(x, "delete_rows", "deleting")
    /\ Unblocked(x)
    /\ held' = [held EXCEPT ![x] = {d \in target[x] : status[d] # "deleted"}]
    /\ UNCHANGED <<job, jobDocument, row, table, lockHolder, target, duplicate>>

\* The chunks go whether or not the document row changed.
CommitDelete(x) ==
    /\ Goto(x, "deleting", "done")
    /\ status' = [d \in Document |-> IF d \in held[x] THEN "deleted" ELSE status[d]]
    /\ chunks' = [d \in Document |-> IF d \in target[x] THEN "deleted" ELSE chunks[d]]
    /\ Release(x)
    /\ UNCHANGED <<job, jobDocument, row, duplicate>>

\* The vector store refuses, or the database fails.
DeleteRaises(x) ==
    /\ pc[x] \in {"delete_rows", "deleting"}
    /\ pc' = [pc EXCEPT ![x] = "raised"]
    /\ Rollback(x)
    /\ UNCHANGED job

-------------------------------------------------------------------------------
\* The process dies or the task is cancelled: CancelledError is no Exception,
\* so no handler runs, and the open transaction rolls back.
Abandon(c) ==
    /\ pc[c] \notin Over \cup {"idle"}
    /\ pc' = [pc EXCEPT ![c] = "gone"]
    /\ Rollback(c)
    /\ UNCHANGED job

\* Every call has ended: nothing is left to do.
AllOver ==
    /\ \A c \in Call : pc[c] \in Over \/ pc[c] = "idle"
    /\ UNCHANGED vars

IngestStep(j) ==
    \/ MarkRunning(j)
    \/ (\E h \in Hash : ParseReturns(j, h)) \/ ParseRaises(j)
    \/ AcquireLock(j) \/ FindDuplicate(j) \/ FindNoDuplicate(j)
    \/ \E next \in {"done", "failing"} : CommitSkipped(j, next) \/ CommitIngest(j, next)
    \/ LockScan(j) \/ LockRows(j) \/ MarkFailed(j)

\* The statements a job and a restore share.
WriteStep(w) ==
    \/ NextVersion(w) \/ SupersedeScan(w) \/ SupersedeRows(w)
    \/ InsertRow(w) \/ InsertViolates(w)

DeleteStep(x) == DeleteRows(x) \/ CommitDelete(x)

Fault ==
    \/ \E j \in Job : MarkRunningRaises(j) \/ PersistRaises(j) \/ MarkFailedIsLost(j)
    \/ \E r \in Restorer : RestoreRaises(r)
    \/ \E x \in Remover : DeleteRaises(x)
    \/ \E c \in Call : Abandon(c)

Next ==
    \/ \E j \in Job, s \in Source : CreateJob(j, s)
    \/ \E j \in Job : IngestStep(j)
    \/ \E w \in Document : WriteStep(w)
    \/ \E r \in Restorer, d \in Document : RestoreBegins(r, d)
    \/ \E r \in Restorer : CommitRestore(r)
    \/ \E x \in Remover, d \in Document : DeleteBegins(x, d)
    \/ \E x \in Remover : DeleteStep(x)
    \/ Fault
    \/ AllOver

Spec == Init /\ [][Next]_vars

\* A call that has started keeps running (the event loop schedules it, the
\* parse has a timeout), and a wait for a lock ends once the lock is free.  No
\* fault has to happen: a wait that only a fault could end would be a deadlock.
Fairness ==
    /\ \A j \in Job : WF_vars(IngestStep(j) \/ WriteStep(j))
    /\ \A r \in Restorer : WF_vars(WriteStep(r) \/ CommitRestore(r))
    /\ \A x \in Remover : WF_vars(DeleteStep(x))

FairSpec == Spec /\ Fairness
===============================================================================
