---------------------------- MODULE IngestInvariant ----------------------------
(***************************************************************************)
(* Why the properties of IngestProperties hold: what the calls in flight   *)
(* know about the tables they are going to change.  Consistent, the        *)
(* conjunction of the parts below and of the properties they imply, is     *)
(* inductive.                                                              *)
(***************************************************************************)
EXTENDS IngestProperties

\* A call that has begun has a source; a document is stored only by a call
\* whose transaction is over.
Begun ==
    \A d \in Document :
        /\ pc[d] # "idle" => source[d] \in Source
        /\ status[d] # "absent" => pc[d] \in Over \cup {"failing"}

\* A job that has parsed its file has a content hash, and so has a stored document.
HashKnown ==
    /\ \A j \in Job : pc[j] \in {"locking"} \cup Persisting => hash[j] \in Hash
    /\ \A d \in Document : status[d] # "absent" => hash[d] \in Hash

\* A job inside its transaction holds the advisory lock of its source, and only
\* such a job does.
LockHeld ==
    \A j \in Job : pc[j] \in Persisting => lockHolder[source[j]] = j

\* A row is locked by one transaction at a time, and it stays as it was when it
\* was locked: active in the hands of a writer, undeleted in those of a remover.
RowsHeld ==
    /\ \A c \in Call : pc[c] = "idle" => held[c] = {}
    /\ \A c, e \in Call : c # e => held[c] \cap held[e] = {}
    /\ \A w \in Document : \A d \in held[w] : status[d] = "active" /\ source[d] = source[w]
    /\ \A x \in Remover : \A d \in held[x] : status[d] \in {"active", "superseded"}

\* The rows a running statement has picked are stored rows; writers pick rows
\* of their own source, a remover one row, which it holds or finds deleted.
RowsPicked ==
    /\ \A w \in Document :
          pc[w] \in {"lock_rows", "supersede_rows"} => target[w] \subseteq Stored(source[w])
    /\ \A x \in Remover :
          /\ pc[x] \in {"delete_rows", "deleting"} =>
                \E d \in Document : target[x] = {d} /\ status[d] # "absent"
          /\ pc[x] = "deleting" =>
                /\ held[x] \subseteq target[x]
                /\ \A d \in target[x] \ held[x] : status[d] = "deleted"

\* Where a call has computed its version number: a job numbers after it has
\* superseded, a restore before.
Numbered(w) ==
    \/ pc[w] \in {"inserting", "inserted"}
    \/ w \in Restorer /\ pc[w] \in {"supersede_scan", "supersede_rows"}

\* Every number below the one a call has computed is taken.
NumbersTaken ==
    \A w \in Document :
        Numbered(w) =>
            /\ version[w] > 0
            /\ \A n \in 1 .. version[w] - 1 : \E x \in Stored(source[w]) : version[x] = n

\* A call that has inserted its row is the only one of its source that has; its
\* number tops the stored ones, and it holds whatever is active.
InsertedAlone ==
    \A w \in Document :
        pc[w] = "inserted" =>
            /\ \A x \in Document \ {w} : pc[x] = "inserted" => source[x] # source[w]
            /\ \A d \in Stored(source[w]) :
                  /\ version[d] < version[w]
                  /\ status[d] = "active" => d \in held[w]

\* From the duplicate check to the commit no other upload stores this content.
NoDuplicateYet ==
    \A j \in Job :
        pc[j] \in Persisting \ {"dedupe", "skipping"} =>
            \A d \in Live(source[j]) \cap Job : hash[d] # hash[j]

\* What the job row says at each point of the call.
JobFollowsCall ==
    \A j \in Job :
        /\ pc[j] = "idle" => job[j] = "absent"
        /\ pc[j] = "created" => job[j] = "pending"
        /\ pc[j] \in {"parsing", "locking"} \cup Persisting => job[j] = "running"
        /\ pc[j] = "skipping" =>
              duplicate[j] \in Stored(source[j]) /\ hash[duplicate[j]] = hash[j]

\* No other upload changes what an upload has locked or numbered.
UploadsKnow ==
    \A j \in Job :
        /\ pc[j] = "lock_rows" => Active(source[j]) \cap Job \subseteq target[j]
        /\ pc[j] \in {"supersede_scan", "supersede_rows", "numbering", "inserting"} =>
              Active(source[j]) \cap Job \subseteq held[j]
        /\ pc[j] = "inserting" =>
              \A d \in Stored(source[j]) \cap Job : version[d] < version[j]

\* A restore in flight copies a stored document.
RestoresStored ==
    \A r \in Restorer :
        pc[r] \in Persisting =>
            \E e \in Document :
                status[e] # "absent" /\ source[e] = source[r] /\ hash[e] = hash[r]

Consistent ==
    /\ TypeOK
    /\ Begun
    /\ HashKnown
    /\ LockHeld
    /\ RowsHeld
    /\ RowsPicked
    /\ ChunksFollowDocument
    /\ NumbersTaken
    /\ InsertedAlone
    /\ VersionsInOrder
    /\ NoDuplicateYet
    /\ ContentStoredOnce
    /\ JobFollowsCall
    /\ JobMatchesDocument
    /\ UploadsKnow
    /\ RestoresStored
===============================================================================
