--------------------------- MODULE DocumentVersions ---------------------------
(***************************************************************************)
(* What the document registry promises, with every operation atomic: the   *)
(* version history of each source (a source is one (tenant, knowledge      *)
(* base, source_uri) triple).                                              *)
(*                                                                         *)
(* A document is named by the call that stores it.  An upload or a restore *)
(* publishes one new version, on top of every earlier one, and retires the *)
(* version that was active; a deletion withdraws one version for good.     *)
(* Only the chunks of active documents can be retrieved.                   *)
(*                                                                         *)
(* Module Ingest describes the transactions and the row locks the code     *)
(* runs and is shown to implement this one.                                *)
(***************************************************************************)
EXTENDS Naturals

CONSTANTS
    Upload,      \* documents stored by an upload
    Restoration, \* documents stored by restoring an earlier version
    Source,      \* sources
    Hash,        \* content hashes
    None         \* no source, no hash

Document == Upload \cup Restoration

VARIABLES
    status,      \* rag_documents.status of each document, "absent" before it is stored
    source,      \* rag_documents.(knowledge_base_id, source_uri)
    hash,        \* rag_documents.content_hash
    version,     \* rag_documents.version
    retrievable  \* the documents whose parent and child chunks are active

vars == <<status, source, hash, version, retrievable>>

Stored(s) == {d \in Document : status[d] # "absent" /\ source[d] = s}
Live(s) == {d \in Stored(s) : status[d] # "deleted"}

Init ==
    /\ status = [d \in Document |-> "absent"]
    /\ source = [d \in Document |-> None]
    /\ hash = [d \in Document |-> None]
    /\ version = [d \in Document |-> 0]
    /\ retrievable = {}

\* A new version of source s, above every version stored so far, replaces
\* the active one in a single step.
Publish(d, s, h) ==
    /\ status[d] = "absent"
    /\ status' = [e \in Document |->
                    IF e = d THEN "active"
                    ELSE IF source[e] = s /\ status[e] = "active" THEN "superseded"
                    ELSE status[e]]
    /\ source' = [source EXCEPT ![d] = s]
    /\ hash' = [hash EXCEPT ![d] = h]
    /\ \E n \in {0} \cup {version[e] : e \in Stored(s)} :
          /\ \A e \in Stored(s) : version[e] <= n
          /\ version' = [version EXCEPT ![d] = n + 1]
    /\ retrievable' = (retrievable \ Stored(s)) \cup {d}

\* An upload never stores content that another upload already stored for the
\* source and that has not been deleted since.
PublishUpload(d, s, h) ==
    /\ \A e \in Live(s) \cap Upload : hash[e] # h
    /\ Publish(d, s, h)

\* A restore publishes the content of a stored version again.
PublishRestoration(d, s, h) ==
    /\ \E e \in Stored(s) : hash[e] = h
    /\ Publish(d, s, h)

Erase(d) ==
    /\ status[d] \in {"active", "superseded"}
    /\ status' = [status EXCEPT ![d] = "deleted"]
    /\ retrievable' = retrievable \ {d}
    /\ UNCHANGED <<source, hash, version>>

Next ==
    \/ \E d \in Upload, s \in Source, h \in Hash : PublishUpload(d, s, h)
    \/ \E d \in Restoration, s \in Source, h \in Hash : PublishRestoration(d, s, h)
    \/ \E d \in Document : Erase(d)

Spec == Init /\ [][Next]_vars
===============================================================================
