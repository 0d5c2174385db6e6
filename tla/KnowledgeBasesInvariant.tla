----------------------- MODULE KnowledgeBasesInvariant -----------------------
(***************************************************************************)
(* Why the properties of KnowledgeBasesProperties hold: what a call knows  *)
(* at each of its steps of the rows it holds and of those it is going to   *)
(* write.  Governed, the conjunction of the parts below, is inductive.     *)
(***************************************************************************)
EXTENDS KnowledgeBasesProperties

\* A row has one holder.
RowsHeld ==
    \A c, x \in Call : c # x =>
        /\ LockedBase(c) # None => LockedBase(x) # LockedBase(c)
        /\ \A d \in Document : Holds(c, d) => ~Holds(x, d)

\* Only bases that exist have members, and what was not stored was not changed.
RowsExist ==
    /\ \A m \in member : base[m.base].status # "absent"
    /\ \A d \in Document : doc[d].status = "absent" => doc[d].by = None

\* The ids that were given out to a call are free until it uses them.
IdsAreFree(c) ==
    /\ pc[c] \in {"idle", "checked", "creating"} => base[NewBase[c]].status = "absent"
    /\ pc[c] \in {"idle", "checked", "creating", "resolved"} =>
         doc[NewDocument[c]].status = "absent"

\* What a call about a base is doing.
BaseKnown(c) ==
    /\ pc[c] = "checked" => user[c] \in User
    /\ pc[c] \in {"checked", "resolved"} => op[c] \in {"upload", "ingest"}
    /\ pc[c] = "stored" => op[c] = "upload"
    /\ pc[c] = "creating" =>
         /\ user[c] \in User /\ target[c] = NewBase[c] /\ name[c] \in Name
         /\ op[c] \in {"create", "upload", "ingest"}
    /\ pc[c] \in {"locked", "writing", "marked", "deleting"} =>
         target[c] \in Base /\ base[target[c]].status # "absent"
    /\ pc[c] = "locked" => op[c] = "update"
    /\ pc[c] = "writing" => op[c] \in {"update", "archive"}
    /\ pc[c] \in {"locked", "writing"} /\ op[c] = "update" => name[c] \in Name
    /\ pc[c] \in {"marked", "deleting"} => op[c] = "delete"

\* What a call about documents is doing: they are of its base, and one that it
\* updates stays active.
WorkKnown(c) ==
    /\ pc[c] \in {"picked", "removing"} => op[c] = "remove"
    /\ pc[c] = "editing" => op[c] = "edit"
    /\ pc[c] \notin {"deleting", "removing", "done"} => gone[c] = {}
    /\ pc[c] \in {"deleting", "picked", "removing", "editing"} =>
         /\ gone[c] \subseteq work[c]
         /\ \A d \in work[c] : doc[d].status # "absent" /\ doc[d].base = target[c]
    /\ pc[c] = "removing" => gone[c] = work[c]
    /\ pc[c] = "editing" => \A d \in work[c] : doc[d].status = "active"

\* What was in the base when its documents were listed has been stored, and is in the
\* list unless that is full; when the deletion is over all of the list is deleted.
ListKnown(c) ==
    /\ pc[c] \in {"deleting", "done"} /\ op[c] = "delete" =>
         /\ \A d \in seen[c] : doc[d].status # "absent"
         /\ seen[c] \subseteq work[c] \/ Cardinality(work[c]) = DeleteLimit
    /\ pc[c] = "done" /\ op[c] = "delete" => \A d \in work[c] : doc[d].status = "deleted"

\* A call writes a name that no other active base has and no other call writes.
Writes(c, n) ==
    /\ name[c] = n
    /\ pc[c] = "creating" \/ (pc[c] = "writing" /\ op[c] = "update" /\ Active(target[c]))
KeysHeld ==
    \A c \in Call : \A n \in Name : Writes(c, n) =>
        /\ ~NameTaken(target[c], n)
        /\ \A x \in Call \ {c} : ~Writes(x, n)

\* There are only events of calls that have committed.
EventsCommitted == \A e \in audit : e[2] = "success" /\ pc[e[3]] = "done"

Governed ==
    /\ TypeOK
    /\ RowsHeld
    /\ RowsExist
    /\ \A c \in Call : IdsAreFree(c) /\ BaseKnown(c) /\ WorkKnown(c) /\ ListKnown(c)
    /\ KeysHeld /\ ActiveNamesUnique
    /\ EventsCommitted /\ AuditIsTrue
===============================================================================
