----------------------- MODULE KnowledgeBasesProperties -----------------------
(***************************************************************************)
(* What the governed changes of knowledge bases promise.                   *)
(***************************************************************************)
EXTENDS KnowledgeBases

\* Two active knowledge bases of a tenant never have the same name, however
\* creations, renamings and the creation of the default base overlap
\* (uq_rag_kb_tenant_active_name).
ActiveNamesUnique ==
    \A b1, b2 \in Base :
        Active(b1) /\ Active(b2) /\ base[b1].name = base[b2].name => b1 = b2

\* A call that deleted a knowledge base deleted every document it found there: one
\* that is still active was stored after the list was read, or the list was full.
LeftoversAreExplained ==
    \A c \in Call : pc[c] = "done" /\ op[c] = "delete" =>
        \A d \in seen[c] : doc[d].status = "active" =>
            Cardinality(work[c]) = DeleteLimit /\ d \notin work[c]

\* The call that a document was last updated by has written the event of the deletion
\* or of the update.
ChangeIsAudited(d) ==
    /\ doc[d].status = "deleted" => doc[d].by # None
    /\ doc[d].by # None =>
         \E e \in audit : /\ e[3] = doc[d].by /\ d \in work[e[3]]
                          /\ doc[d].base = target[e[3]]
                          /\ IF doc[d].status = "deleted"
                             THEN e[1] \in {"document.delete", "kb.delete"}
                             ELSE e[1] = "document.update_metadata"
\* A base has left the active state only if its archiving or its deletion is there.
EndIsAudited(b) ==
    base[b].status \in {"archived", "deleted"} =>
        \E e \in audit : e[1] \in {"kb.archive", "kb.delete"} /\ target[e[3]] = b
\* A call that raised has no event of success, what an event says is deleted is, and of
\* what it says was updated an update or a deletion is left.
EventIsTrue(e) ==
    /\ e[2] = "success" => pc[e[3]] = "done"
    /\ e[1] \in {"document.delete", "kb.delete"} =>
         \A d \in work[e[3]] : doc[d].status = "deleted"
    /\ e[1] = "document.update_metadata" => \A d \in work[e[3]] : doc[d].by # None

\* The audit log says what happened: nothing is changed or disappears without an
\* event, and no event of success is about a change that was rolled back or never made.
AuditIsTrue ==
    /\ \A d \in Document : ChangeIsAudited(d)
    /\ \A b \in Base : EndIsAudited(b)
    /\ \A e \in audit : EventIsTrue(e)

\* Every call that has begun ends: no wait for a row or a name is for ever, also
\* when two renamings each want the name of the other's base.
EveryCallEnds == \A c \in Call : pc[c] \notin {"idle"} \cup Over ~> pc[c] \in Over

-----------------------------------------------------------------------------
(* What the design document says and the code does not do *)

\* A request that was denied has left an audit event (M6-design.md:824).
DeniedIsAudited ==
    \A c \in Call : pc[c] = "denied" => \E e \in audit : e[2] = "denied" /\ e[3] = c

\* After a knowledge base is deleted none of its documents is active any more, so
\* that their chunks cannot be recalled (M6-design.md:881).
DeletedServesNothing ==
    \A b \in Base : base[b].status = "deleted" => Documents(b) = {}
===============================================================================
