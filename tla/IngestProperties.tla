--------------------------- MODULE IngestProperties ---------------------------
(***************************************************************************)
(* What must hold of the transactions of module Ingest, and the version    *)
(* history they implement.                                                 *)
(***************************************************************************)
EXTENDS Ingest

Live(s) == {d \in Stored(s) : status[d] # "deleted"}

\* At most one document of a source is active, whatever uploads, restores and
\* deletions overlap or fail: the partial unique index, the row locks and the
\* supersede statement together.
OneActive ==
    \A s \in Source : \A d, e \in Active(s) : d = e

\* No two versions of a source share a number, the numbers have no gap, and an
\* active document is the newest version of its source: whoever commits last is
\* what retrieval serves (max(version) + 1 read under, or without, the lock).
VersionsInOrder ==
    \A s \in Source : \A d, e \in Stored(s) :
        /\ d # e => version[d] # version[e]
        /\ status[d] = "active" => version[e] <= version[d]
        /\ \A n \in 1 .. version[d] : \E x \in Stored(s) : version[x] = n

\* Identical content uploaded concurrently is stored once: two uploads never
\* leave two undeleted documents of one source with the same content.  The
\* advisory lock spans the duplicate check and the insert.
ContentStoredOnce ==
    \A s \in Source : \A d, e \in Live(s) \cap Job :
        d # e => hash[d] # hash[e]

\* The chunks of a document have the document's status in every committed
\* state: nothing of a superseded or deleted document stays retrievable.
ChunksFollowDocument == chunks = status

\* A job reports success exactly when its document is stored, and a skipped job
\* names a stored document of its source with its content.
JobMatchesDocument ==
    \A j \in Job :
        /\ job[j] = "success" <=> status[j] # "absent"
        /\ job[j] = "success" => jobDocument[j] = j
        /\ job[j] = "skipped_duplicate" =>
              /\ jobDocument[j] \in Stored(source[j])
              /\ hash[jobDocument[j]] = hash[j]

\* Among uploads the unique indexes are only a backstop: the advisory lock keeps
\* two uploads of one source from ever colliding on them, so no upload fails
\* because of another one.
UploadsDoNotCollide ==
    \A j \in Job :
        pc[j] = "inserting" =>
            /\ \A x \in Job \ {j} : ~(pc[x] = "inserted" /\ source[x] = source[j])
            /\ \A d \in Stored(source[j]) \cap Job : ~Violates(j, d)

\* A terminal job never changes, a deleted document stays deleted, and no step
\* makes a superseded document active again.
NothingComesBack ==
    [][/\ \A j \in Job : job[j] \in Terminal => job'[j] = job[j]
       /\ \A d \in Document :
             /\ status[d] = "deleted" => status'[d] = "deleted"
             /\ status[d] = "superseded" => status'[d] # "active"
      ]_vars

\* Replacing a version leaves no gap: a source that is served goes on being
\* served until its active document is deleted.
ServedUntilDeleted ==
    [][\A s \in Source :
          Active(s) # {} =>
              Active(s)' # {} \/ \E d \in Active(s) : status'[d] = "deleted"
      ]_vars

\* Every call that starts ends: the advisory lock, the row locks and the waits
\* on the unique indexes never form a cycle.
EveryCallEnds ==
    \A c \in Call : pc[c] # "idle" ~> pc[c] \in Over

\* M2-design.md: ingest_document raises only after the job is in a terminal state.
RaisedMeansSettled ==
    \A j \in Job : pc[j] = "raised" => job[j] \in Terminal

\* M2-design.md: a deleted document is no duplicate, the upload becomes a new
\* active version.  So a job may not skip its content for a document that is
\* deleted at the moment the job commits.
SkipsForLiveDocument ==
    [][\A j \in Job :
          job[j] # "skipped_duplicate" /\ job'[j] = "skipped_duplicate" =>
              status[jobDocument'[j]] # "deleted"
      ]_vars

-------------------------------------------------------------------------------
\* The version history: rows and columns as the committed tables show them.
History == INSTANCE DocumentVersions WITH
    Upload <- Job,
    Restoration <- Restorer,
    source <- [d \in Document |-> IF status[d] = "absent" THEN None ELSE source[d]],
    hash <- [d \in Document |-> IF status[d] = "absent" THEN None ELSE hash[d]],
    version <- [d \in Document |-> IF status[d] = "absent" THEN 0 ELSE version[d]],
    retrievable <- {d \in Document : chunks[d] = "active"}

\* The interleaved statements of overlapping transactions amount to atomic
\* publications and deletions, one at a time.
ImplementsHistory == History!Spec
===============================================================================
