---------------------------- MODULE KnowledgeBases ----------------------------
(***************************************************************************)
(* The knowledge bases of a tenant: GovernanceService, the repositories of *)
(* knowledge bases, members and audit events, and the parts of             *)
(* KnowledgeService that resolve the base of an upload and the scope of a  *)
(* retrieval.                                                              *)
(*                                                                         *)
(* A governed change is one transaction: it reads the caller's role, locks *)
(* and changes rows, writes its audit event and commits.  An upload is     *)
(* four of them: the role, the base, the document (module Ingest has what  *)
(* happens inside), the audit event.                                       *)
(***************************************************************************)
EXTENDS Integers, FiniteSets

CONSTANTS
    Call,       \* requests that are served, at the same time or one after the other
    Operations, \* what each may be
    Base, Name, Document, User,
    Principals, \* the user and department principals of each user
    Members,    \* members of the bases that exist at first ...
    NameOf,     \* ... the names of those bases ...
    BaseOf,     \* ... and the base of each document stored at first
    NewBase,    \* the ids that the sequences give to the base ...
    NewDocument,\* ... and to the document a call inserts
    DefaultName,\* Settings.default_knowledge_base_name
    DeleteLimit,\* Settings.reindex_max_documents_per_request
    None        \* no user, base, name, call

\* create_knowledge_base, update_knowledge_base, delete_knowledge_base in its two
\* modes, update_document, delete_document, reindex_knowledge_base, upload_document,
\* ingest_document on its own, and the scope of retrieve, context or answer.
Operation == {"create", "update", "archive", "delete", "edit", "remove", "reindex",
              "upload", "ingest", "retrieve"}

RoleRank == [auditor |-> 0, viewer |-> 1, editor |-> 2, admin |-> 3, owner |-> 4]
Role == DOMAIN RoleRank
Member == [who : UNION {Principals[u] : u \in User}, base : Base, role : Role]

ASSUME FirstBases ==
    /\ DOMAIN NameOf \subseteq Base
    /\ \A b \in DOMAIN NameOf : NameOf[b] \in Name
    /\ \A b1, b2 \in DOMAIN NameOf : NameOf[b1] = NameOf[b2] => b1 = b2
    /\ \A d \in DOMAIN BaseOf : d \in Document /\ BaseOf[d] \in DOMAIN NameOf
    /\ \A m \in Members : m \in Member /\ m.base \in DOMAIN NameOf
    /\ \A u \in User : u \in Principals[u]
ASSUME IdsAreNew ==
    /\ NewBase \in [Call -> Base \ DOMAIN NameOf]
    /\ NewDocument \in [Call -> Document \ DOMAIN BaseOf]
    /\ \A c1, c2 \in Call :
         NewBase[c1] = NewBase[c2] \/ NewDocument[c1] = NewDocument[c2] => c1 = c2
ASSUME SomeOperations == Operations \in [Call -> SUBSET Operation]
ASSUME DefaultIsName == DefaultName \in Name
ASSUME LimitPositive == DeleteLimit \in Nat \ {0}
ASSUME NoneIsNothing == None \notin User \cup Base \cup Name \cup Call

VARIABLES
    base,       \* status and name of each knowledge base
    member,     \* rows of rag_knowledge_base_members
    doc,        \* status and base of each document, and the call it was last updated by
    audit,      \* committed events: the action, the outcome and the call that wrote it
    pc,
    user,       \* RequestContext.user_id of each call
    op,         \* the operation
    target,     \* the knowledge base it is about
    name,       \* the name it writes
    work,       \* documents it deletes, updates or stores
    gone,       \* documents it has locked and marked deleted
    seen        \* history: the active documents of the base when they were listed

tables == <<base, member, doc, audit>>
request == <<user, op, target, name>>
progress == <<work, gone, seen>>
vars == <<tables, pc, request, progress>>

Over == {"done", "denied", "raised"}
InTransaction == {"denying", "creating", "locked", "writing", "marked", "deleting", "picked", "removing", "editing"}
Between == {"checked", "resolved", "stored"}
Location == {"idle"} \cup InTransaction \cup Between \cup Over
Action == {"kb.create", "kb.update", "kb.archive", "kb.delete",
           "document.delete", "document.upload", "document.update_metadata",
           "kb.reindex_requested", "retrieval.scope_resolved", "forbidden"}
Event == Action \X {"success", "denied"} \X Call

BaseRow == [status : {"absent", "active", "archived", "deleted"}, name : Name \cup {None}]
DocumentRow == [status : {"absent", "active", "deleted"},
                base : Base \cup {None}, by : Call \cup {None}]

TypeOK ==
    /\ base \in [Base -> BaseRow]
    /\ member \subseteq Member
    /\ doc \in [Document -> DocumentRow]
    /\ audit \subseteq Event
    /\ pc \in [Call -> Location]
    /\ user \in [Call -> User \cup {None}]
    /\ op \in [Call -> Operation \cup {"none"}]
    /\ target \in [Call -> Base \cup {None}]
    /\ name \in [Call -> Name \cup {None}]
    /\ work \in [Call -> SUBSET Document]
    /\ gone \in [Call -> SUBSET Document]
    /\ seen \in [Call -> SUBSET Document]

Init ==
    /\ base = [b \in Base |->
                 IF b \in DOMAIN NameOf THEN [status |-> "active", name |-> NameOf[b]]
                                        ELSE [status |-> "absent", name |-> None]]
    /\ member = Members
    /\ doc = [d \in Document |->
                IF d \in DOMAIN BaseOf THEN [status |-> "active", base |-> BaseOf[d], by |-> None]
                                       ELSE [status |-> "absent", base |-> None, by |-> None]]
    /\ audit = {}
    /\ pc = [c \in Call |-> "idle"]
    /\ user = [c \in Call |-> None]
    /\ op = [c \in Call |-> "none"]
    /\ target = [c \in Call |-> None]
    /\ name = [c \in Call |-> None]
    /\ work = [c \in Call |-> {}]
    /\ gone = [c \in Call |-> {}]
    /\ seen = [c \in Call |-> {}]

-----------------------------------------------------------------------------
(* Roles *)

\* best_role takes the highest role of the user's and the department's rows.
HasRole(u, b, min) ==
    \E m \in member : /\ m.base = b /\ m.who \in Principals[u]
                      /\ RoleRank[m.role] >= RoleRank[min]

Active(b) == base[b].status = "active"
Accessible(u, min) == {b \in Base : Active(b) /\ HasRole(u, b, min)}
Documents(b) == {d \in Document : doc[d].status = "active" /\ doc[d].base = b}

(* Locks: the row of a base or document that a transaction has changed, and *)
(* the key of uq_rag_kb_tenant_active_name that it has inserted or deleted. *)

LockedBase(c) ==
    IF pc[c] \in {"locked", "writing", "marked", "deleting"} THEN target[c] ELSE None
BaseFree(c, b) == \A x \in Call \ {c} : LockedBase(x) # b

Holds(c, d) ==
    \/ pc[c] \in {"deleting", "removing"} /\ d \in gone[c]
    \/ pc[c] = "editing" /\ d \in work[c]
DocumentFree(c, d) == \A x \in Call \ {c} : ~Holds(x, d)

\* An insert of a key waits for the transactions that write that key or the row
\* that has it.
Touches(x, n) ==
    \/ pc[x] \in {"creating", "writing"} /\ name[x] = n
    \/ LockedBase(x) # None /\ Active(target[x]) /\ base[target[x]].name = n
\* Mutant: the insert does not wait for keys that are not committed.
NameFreeAtOnce(c, n) == TRUE
\* Mutant: a call waits for the name that its own base has.
NameFreeOfAll(c, n) == \A x \in Call : ~Touches(x, n)
NameFree(c, n) == \A x \in Call \ {c} : ~Touches(x, n)
NameTaken(b, n) == \E o \in Base \ {b} : Active(o) /\ base[o].name = n

-----------------------------------------------------------------------------
(* The end of a call *)

Goes(c, l) == pc' = [pc EXCEPT ![c] = l]
Log(action, c) == audit' = audit \cup {<<action, "success", c>>}
Offered(c, o) == pc[c] = "idle" /\ o \in Operations[c]
Starts(c, u, o, b, n) ==
    /\ Offered(c, o)
    /\ user' = [user EXCEPT ![c] = u]
    /\ op' = [op EXCEPT ![c] = o]
    /\ target' = [target EXCEPT ![c] = b]
    /\ name' = [name EXCEPT ![c] = n]

\* The error is the caller's only trace of the call; its transaction is rolled back.
Forget(c) ==
    /\ user' = [user EXCEPT ![c] = None] /\ op' = [op EXCEPT ![c] = "none"]
    /\ target' = [target EXCEPT ![c] = None] /\ name' = [name EXCEPT ![c] = None]
    /\ work' = [work EXCEPT ![c] = {}] /\ gone' = [gone EXCEPT ![c] = {}]
    /\ seen' = [seen EXCEPT ![c] = {}]
Raise(c) == Goes(c, "raised") /\ Forget(c) /\ UNCHANGED tables

\* _require and its like write a denied event and raise: who asked for what plays no
\* part any more ...
Forbid(c, u, b, o, min) ==
    /\ ~HasRole(u, b, min)
    /\ Goes(c, "denying")
    /\ Starts(c, None, o, None, None)
    /\ UNCHANGED <<tables, progress>>

\* ... and the error leaves the block of the transaction, which is rolled back
\* with the event in it.
RaiseDenied(c) ==
    /\ pc[c] = "denying"
    /\ Goes(c, "denied")
    /\ Forget(c)
    /\ UNCHANGED tables

\* The database, the vector store or the process fails, or a wait for a lock is
\* given up: the transaction is rolled back.
Fail(c) ==
    /\ pc[c] \in InTransaction \cup Between
    /\ Raise(c)

-----------------------------------------------------------------------------
(* create_knowledge_base and update_knowledge_base *)

CreateBase(c, u, n) ==
    /\ NameFree(c, n) /\ ~NameTaken(NewBase[c], n)
    /\ Goes(c, "creating")
    /\ Starts(c, u, "create", NewBase[c], n)
    /\ UNCHANGED <<tables, progress>>

\* The unique index refuses the row.
CreateConflicts(c, n) ==
    /\ Offered(c, "create")
    /\ NameFree(c, n) /\ NameTaken(NewBase[c], n)
    /\ Raise(c)

\* KnowledgeBaseRepository.create: the row and its owner.
AddBase(c) ==
    /\ base' = [base EXCEPT ![target[c]] = [status |-> "active", name |-> name[c]]]
    /\ member' = member \cup {[who |-> user[c], base |-> target[c], role |-> "owner"]}

CommitCreate(c) ==
    /\ op[c] = "create" /\ pc[c] = "creating"
    /\ AddBase(c)
    /\ Log("kb.create", c)
    /\ Goes(c, "done")
    /\ UNCHANGED <<doc, request, progress>>

LockForUpdate(c, u, b, n) ==
    /\ HasRole(u, b, "admin")
    /\ BaseFree(c, b) /\ base[b].status \in {"active", "archived"}
    /\ Goes(c, "locked")
    /\ Starts(c, u, "update", b, n)
    /\ UNCHANGED <<tables, progress>>

UpdateFindsNone(c, u, b) ==
    /\ Offered(c, "update") /\ HasRole(u, b, "admin")
    /\ BaseFree(c, b) /\ base[b].status = "deleted"
    /\ Raise(c)

\* Only the names of active bases are in the unique index.
Rename(c) ==
    /\ pc[c] = "locked"
    /\ Active(target[c]) => NameFree(c, name[c]) /\ ~NameTaken(target[c], name[c])
    /\ Goes(c, "writing")
    /\ UNCHANGED <<tables, request, progress>>

RenameConflicts(c) ==
    /\ pc[c] = "locked" /\ Active(target[c])
    /\ NameFree(c, name[c]) /\ NameTaken(target[c], name[c])
    /\ Raise(c)

CommitUpdate(c) ==
    /\ op[c] = "update" /\ pc[c] = "writing"
    /\ base' = [base EXCEPT ![target[c]].name = name[c]]
    /\ Log("kb.update", c)
    /\ Goes(c, "done")
    /\ UNCHANGED <<member, doc, request, progress>>

-----------------------------------------------------------------------------
(* delete_knowledge_base *)

\* mark_status writes the status whatever it was.
MarkBase(c, u, b, o) ==
    /\ HasRole(u, b, "owner")
    /\ BaseFree(c, b)
    /\ Goes(c, IF o = "archive" THEN "writing" ELSE "marked")
    /\ Starts(c, u, o, b, None)
    /\ UNCHANGED <<tables, progress>>

\* The newest DeleteLimit active documents of the base, as of this statement.
ListDocuments(c) ==
    /\ pc[c] = "marked"
    /\ \E listed \in SUBSET Documents(target[c]) :
         /\ \/ listed = Documents(target[c]) /\ Cardinality(listed) <= DeleteLimit
            \/ Cardinality(listed) = DeleteLimit
         /\ work' = [work EXCEPT ![c] = listed]
    /\ seen' = [seen EXCEPT ![c] = Documents(target[c])]
    /\ Goes(c, "deleting")
    /\ UNCHANGED <<tables, request, gone>>

\* delete_document_tree and delete_by_document_id of one document.
DeleteNext(c) ==
    /\ pc[c] = "deleting"
    /\ \E d \in work[c] \ gone[c] :
         /\ DocumentFree(c, d)
         /\ gone' = [gone EXCEPT ![c] = @ \cup {d}]
    /\ UNCHANGED <<tables, pc, request, work, seen>>

\* A row that another call has deleted meanwhile is left as it is.
Erase(c) ==
    doc' = [d \in Document |->
              IF d \in gone[c] /\ doc[d].status # "deleted"
              THEN [status |-> "deleted", base |-> doc[d].base, by |-> c] ELSE doc[d]]

\* Mutant: the mode is written as the status.
CommitArchiveAsMode(c) ==
    /\ op[c] = "archive" /\ pc[c] = "writing"
    /\ base' = [base EXCEPT ![target[c]].status = op[c]]
    /\ Log("kb.archive", c)
    /\ Goes(c, "done")
    /\ UNCHANGED <<member, doc, request, progress>>

CommitArchive(c) ==
    /\ op[c] = "archive" /\ pc[c] = "writing"
    /\ base' = [base EXCEPT ![target[c]].status = "archived"]
    /\ Log("kb.archive", c)
    /\ Goes(c, "done")
    /\ UNCHANGED <<member, doc, request, progress>>

\* Mutant: documents that another transaction has locked are skipped.
CommitDeleteSkipping(c) ==
    /\ pc[c] = "deleting" /\ \A d \in work[c] \ gone[c] : ~DocumentFree(c, d)
    /\ base' = [base EXCEPT ![target[c]].status = "deleted"]
    /\ Erase(c)
    /\ Log("kb.delete", c)
    /\ Goes(c, "done")
    /\ UNCHANGED <<member, request, progress>>

CommitDelete(c) ==
    /\ pc[c] = "deleting" /\ work[c] \subseteq gone[c]
    /\ base' = [base EXCEPT ![target[c]].status = "deleted"]
    /\ Erase(c)
    /\ Log("kb.delete", c)
    /\ Goes(c, "done")
    /\ UNCHANGED <<member, request, progress>>

(* delete_document *)

PickDocument(c, u, b, d) ==
    /\ HasRole(u, b, "editor") /\ d \in Documents(b)
    /\ Goes(c, "picked")
    /\ work' = [work EXCEPT ![c] = {d}]
    /\ Starts(c, u, "remove", b, None)
    /\ UNCHANGED <<tables, gone, seen>>

PickNone(c, u, b, d) ==
    /\ Offered(c, "remove")
    /\ HasRole(u, b, "editor") /\ d \notin Documents(b)
    /\ Raise(c)

RemoveDocument(c) ==
    /\ pc[c] = "picked"
    /\ \A d \in work[c] : DocumentFree(c, d)
    /\ gone' = [gone EXCEPT ![c] = work[c]]
    /\ Goes(c, "removing")
    /\ UNCHANGED <<tables, request, work, seen>>

\* Mutant: the event has a transaction of its own, as for an upload, and may be lost.
CommitRemoveThenAudit(c) ==
    /\ pc[c] = "removing"
    /\ Erase(c)
    /\ UNCHANGED audit \/ Log("document.delete", c)
    /\ Goes(c, "done")
    /\ UNCHANGED <<base, member, request, progress>>

CommitRemove(c) ==
    /\ pc[c] = "removing"
    /\ Erase(c)
    /\ Log("document.delete", c)
    /\ Goes(c, "done")
    /\ UNCHANGED <<base, member, request, progress>>

(* update_document and reindex_knowledge_base *)

\* The update waits for who holds the row and looks at its status again.
EditDocument(c, u, b, d) ==
    /\ HasRole(u, b, "editor") /\ d \in Documents(b)
    /\ DocumentFree(c, d)
    /\ Goes(c, "editing")
    /\ work' = [work EXCEPT ![c] = {d}]
    /\ Starts(c, u, "edit", b, None)
    /\ UNCHANGED <<tables, gone, seen>>

EditNone(c, u, b, d) ==
    /\ Offered(c, "edit")
    /\ HasRole(u, b, "editor") /\ d \notin Documents(b)
    /\ Raise(c)

CommitEdit(c) ==
    /\ pc[c] = "editing"
    /\ doc' = [d \in Document |-> IF d \in work[c] THEN [doc[d] EXCEPT !.by = c] ELSE doc[d]]
    /\ Log("document.update_metadata", c)
    /\ Goes(c, "done")
    /\ UNCHANGED <<base, member, request, progress>>

\* Only the request is recorded: nothing is done about the documents.
Reindex(c, u, b) ==
    /\ HasRole(u, b, "editor")
    /\ Starts(c, u, "reindex", b, None)
    /\ Log("kb.reindex_requested", c)
    /\ Goes(c, "done")
    /\ UNCHANGED <<base, member, doc, progress>>

-----------------------------------------------------------------------------
(* upload_document and ingest_document *)

\* Through a knowledge base the role is checked first, the status of the base
\* only afterwards; directly, with or without a base, all is left to Resolve.
BeginUpload(c, u, b, o) ==
    /\ o = "upload" => b # None /\ HasRole(u, b, "editor")
    /\ Goes(c, "checked")
    /\ Starts(c, u, o, b, None)
    /\ UNCHANGED <<tables, progress>>

Resolve(c) ==
    /\ pc[c] = "checked" /\ target[c] # None
    /\ Active(target[c])
    /\ Goes(c, IF HasRole(user[c], target[c], "editor") THEN "resolved" ELSE "denying")
    /\ UNCHANGED <<tables, request, progress>>

ResolveNone(c) ==
    /\ pc[c] = "checked" /\ target[c] # None
    /\ ~Active(target[c])
    /\ Raise(c)

ResolveAccessible(c) ==
    /\ pc[c] = "checked" /\ target[c] = None
    /\ \E b \in Accessible(user[c], "editor") : target' = [target EXCEPT ![c] = b]
    /\ Goes(c, "resolved")
    /\ UNCHANGED <<tables, user, op, name, progress>>

\* Without a base the caller may write to, one of the default name is created.
CreateDefault(c) ==
    /\ pc[c] = "checked" /\ target[c] = None
    /\ Accessible(user[c], "editor") = {}
    /\ NameFree(c, DefaultName) /\ ~NameTaken(NewBase[c], DefaultName)
    /\ target' = [target EXCEPT ![c] = NewBase[c]]
    /\ name' = [name EXCEPT ![c] = DefaultName]
    /\ Goes(c, "creating")
    /\ UNCHANGED <<tables, user, op, progress>>

\* Another user's default base has the name.
DefaultConflicts(c) ==
    /\ pc[c] = "checked" /\ target[c] = None
    /\ Accessible(user[c], "editor") = {}
    /\ NameFree(c, DefaultName) /\ NameTaken(NewBase[c], DefaultName)
    /\ Raise(c)

CommitDefault(c) ==
    /\ op[c] # "create" /\ pc[c] = "creating"
    /\ AddBase(c)
    /\ Goes(c, "resolved")
    /\ UNCHANGED <<doc, audit, request, progress>>

\* The ingestion commits: nothing looks at the base again.
StoreDocument(c) ==
    /\ pc[c] = "resolved"
    /\ doc' = [doc EXCEPT ![NewDocument[c]] = [status |-> "active", base |-> target[c],
                                                 by |-> None]]
    /\ work' = [work EXCEPT ![c] = {NewDocument[c]}]
    /\ Goes(c, IF op[c] = "upload" THEN "stored" ELSE "done")
    /\ UNCHANGED <<base, member, audit, request, gone, seen>>

AuditUpload(c) ==
    /\ pc[c] = "stored"
    /\ Log("document.upload", c)
    /\ Goes(c, "done")
    /\ UNCHANGED <<base, member, doc, request, progress>>

-----------------------------------------------------------------------------
(* _resolve_retrieval_scope *)

\* Bases that are named are not asked for their status; if none is named, all that
\* are active and accessible are searched.  Module Retrieval has the search.
ResolveScope(c, u, asked) ==
    /\ Starts(c, u, "retrieve", None, None)
    /\ \A b \in asked : HasRole(u, b, "viewer")
    /\ asked = {} => Accessible(u, "viewer") # {}
    /\ Log("retrieval.scope_resolved", c)
    /\ Goes(c, "done")
    /\ UNCHANGED <<base, member, doc, progress>>

ForbidScope(c, u, asked) ==
    /\ Starts(c, None, "retrieve", None, None)
    /\ IF asked = {} THEN Accessible(u, "viewer") = {}
                     ELSE \E b \in asked : ~HasRole(u, b, "viewer")
    /\ Goes(c, "denying")
    /\ UNCHANGED <<tables, progress>>

-----------------------------------------------------------------------------
MinRole == [update |-> "admin", archive |-> "owner", delete |-> "owner",
            edit |-> "editor", remove |-> "editor", reindex |-> "editor",
            upload |-> "editor"]

Begin(c) ==
    \E u \in User :
      \/ \E b \in Base, o \in DOMAIN MinRole : Forbid(c, u, b, o, MinRole[o])
      \/ \E n \in Name : CreateBase(c, u, n) \/ CreateConflicts(c, n)
      \/ \E b \in Base, n \in Name : LockForUpdate(c, u, b, n)
      \/ \E b \in Base : UpdateFindsNone(c, u, b)
      \/ \E b \in Base, o \in {"archive", "delete"} : MarkBase(c, u, b, o)
      \/ \E b \in Base, d \in Document : PickDocument(c, u, b, d) \/ PickNone(c, u, b, d)
      \/ \E b \in Base, d \in Document : EditDocument(c, u, b, d) \/ EditNone(c, u, b, d)
      \/ \E b \in Base : Reindex(c, u, b)
      \/ \E b \in Base \cup {None}, o \in {"upload", "ingest"} : BeginUpload(c, u, b, o)
      \/ \E asked \in SUBSET Base : ResolveScope(c, u, asked) \/ ForbidScope(c, u, asked)

Proceed(c) ==
    \/ RaiseDenied(c)
    \/ CommitCreate(c) \/ Rename(c) \/ RenameConflicts(c) \/ CommitUpdate(c)
    \/ ListDocuments(c) \/ DeleteNext(c) \/ CommitArchive(c) \/ CommitDelete(c)
    \/ RemoveDocument(c) \/ CommitRemove(c) \/ CommitEdit(c)
    \/ Resolve(c) \/ ResolveNone(c) \/ ResolveAccessible(c)
    \/ CreateDefault(c) \/ DefaultConflicts(c) \/ CommitDefault(c)
    \/ StoreDocument(c) \/ AuditUpload(c)

\* Renamings that wait for the names the others give up: the database aborts one.
WaitsFor(c, x) == /\ pc[c] = "locked" /\ Active(target[c])
                  /\ x # c /\ Touches(x, name[c])
Deadlocked(c) ==
    \E S \in SUBSET Call : c \in S /\ \A x \in S : \E y \in S : WaitsFor(x, y)
AbortDeadlock(c) == Deadlocked(c) /\ Fail(c)

Next == \E c \in Call : Begin(c) \/ Proceed(c) \/ Fail(c)

\* A call that has begun goes on, and the database resolves deadlocks.
Fairness == \A c \in Call : WF_vars(Proceed(c)) /\ WF_vars(AbortDeadlock(c))
Spec == Init /\ [][Next]_vars
FairSpec == Spec /\ Fairness
===============================================================================
